---- MODULE Spec2Model ----
(***************************************************************************)
(* Model of the userbot interception layer of discord-psu-bot:             *)
(*   - the REST route matcher and route patch lookup (patch-rest),         *)
(*   - the REST request / resolveRequest wrappers (patch-rest,             *)
(*     patch-user-agent),                                                  *)
(*   - the gateway outbound / inbound wrappers (patch-gateway).            *)
(* Strings that the code inspects character by character (routes, route    *)
(* templates) are sequences of one-character strings.                      *)
(***************************************************************************)
EXTENDS Integers, Sequences, FiniteSets, TLC

VARIABLES
    \* ---- RouteMatcher harness (testParameterizedMatch as a pure function)
    mRoute,      \* the concrete route handed to testParameterizedMatch
    mKey,        \* the route map key handed to testParameterizedMatch
    mPc,         \* "call" before testParameterizedMatch ran, then "returned"
    mResult,     \* the boolean it returned (FALSE before the call)
    \* ---- client.patches (the registry)
    userAgent,   \* client.patches.userAgent.value
    packets,     \* client.patches.gateway.packets: opcode -> GatewayPacketPatch
    events,      \* client.patches.gateway.events: event name -> GatewayEventPatch
    \* ---- gateway wrappers
    gwLast,      \* the most recent call of a wrapped shard.send / ws.emit under
                 \* the registry as it is now: its input, the hooks it called in
                 \* order, and the calls it made to the real send / emit
    \* ---- REST wrappers
    routes,      \* client.patches.rest.routes: the Map, as its entries in
                 \* insertion order, each [key, patch]
    writes,      \* number of writes made to the route map so far
    reqs,        \* the logical requests: for each, where its call chain is
                 \* suspended, its local variables, and the calls it made
    \* ---- installation and the websocket managers
    hooks,       \* the hook points the client and the objects of its library
                 \* have (a missing one is `undefined`)
    install,     \* "none" before userbot(client), then "ok" (it returned) or
                 \* "threw"
    late,        \* where an error caused by a missing hook point was thrown
                 \* after installation ("" when nowhere)
    ws,          \* the manager held by client.ws._ws (Null before connect)
    mgrs,        \* the websocket managers: the wrappers on updateShardCount
                 \* and emit, the calls in flight, the shards and their tags
    wsAssigns,   \* number of assignments made to client.ws._ws so far
    \* ---- bot, server and modules
    botEmitter,     \* Bot.emitter: for each bot event its listeners, in the
                    \* order they were added
    serverEmitter,  \* EventMapper.emitter of the server: likewise
    loadedCommands, \* Server.loadedCommands: command name -> handler
    instances,      \* the Module instances: unregisterFunctions, the number
                    \* of handlers bound so far, and how the last unload ended
    \* ---- Server.loadModule, Server.unloadModule, Manager.destroyServerInstance
    loadedModules,  \* Server.loadedModules: module id -> instance, in insertion
                    \* order; an instance is named by the loadModule call that
                    \* constructed it
    loads,          \* the calls of loadModule: position, instance, outcome
    teardown,       \* Manager.destroyServerInstance for the server: "none",
                    \* "unloading" (awaiting the unloadModule calls), "done",
                    \* "rejected"
    awaited,        \* the loadModule calls whose instances destroyServerInstance
                    \* unloads and awaits
    pendingCatch,   \* the awaited unloadModule calls that rejected and whose
                    \* .catch callback has not run yet, in queue order
    managerListeners,  \* Manager.emitter: for each event "none", or how its
                       \* listener was added, "on" or "once"
    \* ---- joinTextList as a pure function
    joinItems,      \* the array handed to joinTextList
    joinText,       \* what it returned (Null before the call)
    \* ---- Server.findMessage
    channelType,    \* channel.type
    channel,        \* the messages of the channel, newest first
    cache,          \* the ids in channel.messages.cache
    lastMessageId,  \* the local of that name (0 for undefined)
    lastMessageTimestamp,  \* the local of that name
    page,           \* the local of that name
    findPc,         \* "idle", "paging" (in the while loop), "fetching" (awaiting
                    \* a page), "refetching" (awaiting the message found),
                    \* "returned", "rejected"
    findResult      \* the id of the message returned (0 for undefined)

matchVars == <<mRoute, mKey, mPc, mResult>>
gatewayVars == <<packets, events, gwLast>>
restVars == <<routes, writes, reqs>>
installVars == <<hooks, install, late, ws, mgrs, wsAssigns>>
lifeVars == <<loadedModules, loads, teardown, awaited, pendingCatch, managerListeners>>
joinVars == <<joinItems, joinText>>
findVars == <<channelType, channel, cache, lastMessageId, lastMessageTimestamp, page, findPc, findResult>>
moduleVars == <<botEmitter, serverEmitter, loadedCommands, instances, lifeVars, joinVars, findVars>>
vars == <<mRoute, mKey, mPc, mResult, userAgent, packets, events, gwLast, routes, writes, reqs,
          hooks, install, late, ws, mgrs, wsAssigns,
          botEmitter, serverEmitter, loadedCommands, instances,
          loadedModules, loads, teardown, awaited, pendingCatch, managerListeners,
          joinItems, joinText,
          channelType, channel, cache, lastMessageId, lastMessageTimestamp, page, findPc,
          findResult>>

\* ---------------------------------------------------------------------
\* Bounds of the RouteMatcher harness
\* ---------------------------------------------------------------------
MaxPathLen == 4
MaxKeyTokens == 3

\* Bound of the REST model: writes made to the route map in one run.
MaxRouteWrites == 2

\* Bounds of the websocket manager model: assignments made to _ws in one
\* run, updateShardCount calls in flight on one manager, shards of a manager.
MaxWsAssigns == 2
MaxInFlight == 2
MaxShards == 2

\* ---------------------------------------------------------------------
\* JavaScript string primitives used by patch-rest
\* ---------------------------------------------------------------------
Lower ==
    {"a","b","c","d","e","f","g","h","i","j","k","l","m",
     "n","o","p","q","r","s","t","u","v","w","x","y","z"}

\* The character class of escapeRegExp: [.*+?^${}()|[\]\\]
SpecialChars ==
    {".","*","+","?","^","$","{","}","(",")","|","[","]","\\"}

\* The replacement text '[^/]+', kept as one atom of the pattern source.
Wildcard == "[^/]+"

\* String.prototype.startsWith
startsWith(s, p) ==
    /\ Len(p) <= Len(s)
    /\ SubSeq(s, 1, Len(p)) = p

\* String.prototype.indexOf: 0-based index of the first occurrence, or -1.
indexOf(s, p) ==
    LET hits == {i \in 0..(Len(s) - Len(p)) : SubSeq(s, i + 1, i + Len(p)) = p}
    IN  IF hits = {} THEN -1
        ELSE CHOOSE i \in hits : \A j \in hits : i <= j

\* String.prototype.substring(a, b): negative arguments count as 0, arguments
\* beyond the length as the length, and the two are swapped when a > b.
substring(s, a, b) ==
    LET clamp(x) == IF x < 0 THEN 0 ELSE IF x > Len(s) THEN Len(s) ELSE x
        lo == IF clamp(a) <= clamp(b) THEN clamp(a) ELSE clamp(b)
        hi == IF clamp(a) <= clamp(b) THEN clamp(b) ELSE clamp(a)
    IN  SubSeq(s, lo + 1, hi)

\* Number of leading characters of s that are in [a-z].
RECURSIVE lowerRun(_)
lowerRun(s) ==
    IF s # <<>> /\ Head(s) \in Lower THEN 1 + lowerRun(Tail(s)) ELSE 0

\* Length of the match of  open [a-z]+ close  at the start of s, 0 if none.
\* [a-z]+ is greedy and neither delimiter starts with a lower-case letter,
\* so the match, when there is one, takes the whole run of letters.
paramLenAt(s, open, close) ==
    IF ~startsWith(s, open) THEN 0
    ELSE LET rest == SubSeq(s, Len(open) + 1, Len(s))
             n    == lowerRun(rest)
         IN  IF n >= 1 /\ startsWith(SubSeq(rest, n + 1, Len(rest)), close)
             THEN Len(open) + n + Len(close)
             ELSE 0

\* escapeRegExp: string.replace(/[.*+?^${}()|[\]\\]/g, '\\$&')
RECURSIVE escapeRegExp(_)
escapeRegExp(s) ==
    IF s = <<>> THEN <<>>
    ELSE (IF Head(s) \in SpecialChars THEN <<"\\", Head(s)>> ELSE <<Head(s)>>)
         \o escapeRegExp(Tail(s))

\* REGEX_PARAMETER.test(key) with REGEX_PARAMETER = /\{:[a-z]+\}/
REGEX_PARAMETER_test(key) ==
    \E i \in 1..Len(key) :
        paramLenAt(SubSeq(key, i, Len(key)), <<"{", ":">>, <<"}">>) > 0

\* keyEscaped.replace(/\\\{:[a-z]+\\\}/g, '[^/]+'): leftmost matches, left to
\* right, not overlapping.
RECURSIVE replaceParameters(_)
replaceParameters(s) ==
    IF s = <<>> THEN <<>>
    ELSE LET n == paramLenAt(s, <<"\\", "{", ":">>, <<"\\", "}">>)
         IN  IF n > 0
             THEN <<Wildcard>> \o replaceParameters(SubSeq(s, n + 1, Len(s)))
             ELSE <<Head(s)>> \o replaceParameters(Tail(s))

\* Whether the pattern source re (after its leading '^') matches at the start
\* of s: '[^/]+' takes one or more characters other than '/', a backslash
\* makes the next character literal, any other character is literal.
RECURSIVE matchHere(_, _)
matchHere(re, s) ==
    IF re = <<>> THEN TRUE
    ELSE IF Head(re) = Wildcard
    THEN \E n \in 1..Len(s) :
            /\ \A k \in 1..n : s[k] # "/"
            /\ matchHere(Tail(re), SubSeq(s, n + 1, Len(s)))
    ELSE IF Head(re) = "\\"
    THEN /\ Len(re) >= 2
         /\ s # <<>>
         /\ Head(s) = re[2]
         /\ matchHere(SubSeq(re, 3, Len(re)), Tail(s))
    ELSE /\ s # <<>>
         /\ Head(s) = Head(re)
         /\ matchHere(Tail(re), Tail(s))

\* new RegExp(source).test(s) for the sources patch-rest builds, which all
\* start with the anchor '^'.
regexTest(source, s) ==
    /\ source # <<>>
    /\ Head(source) = "^"
    /\ matchHere(Tail(source), s)

\* The matcher with the template matched only up to and including its first
\* placeholder (used to show what the checks below depend on).
testParameterizedMatchFirstSegment(route, key) ==
    LET keyEscaped == escapeRegExp(key)
        replaced   == replaceParameters(keyEscaped)
        wilds      == {i \in 1..Len(replaced) : replaced[i] = Wildcard}
        cut        == IF wilds = {} THEN Len(replaced)
                      ELSE CHOOSE i \in wilds : \A j \in wilds : i <= j
    IN  /\ REGEX_PARAMETER_test(key)
        /\ regexTest(<<"^">> \o SubSeq(replaced, 1, cut), route)

testParameterizedMatch(route, key) ==
    IF ~REGEX_PARAMETER_test(key) THEN FALSE
    ELSE IF ~startsWith(key, substring(route, 0, indexOf(route, <<"{", ":">>)))
    THEN FALSE
    ELSE LET keyEscaped == escapeRegExp(key)
             keyRegex   == <<"^">> \o replaceParameters(keyEscaped)
         IN  regexTest(keyRegex, route)


\* ---------------------------------------------------------------------
\* RouteMatcher harness: testParameterizedMatch applied to drawn inputs
\* ---------------------------------------------------------------------
UsersTemplate == <<"/","u","s","e","r","s","/","{",":","i","d","}","/">>
UsersRoute123 == <<"/","u","s","e","r","s","/","1","2","3","/">>
GuildsRoute123 == <<"/","g","u","i","l","d","s","/","1","2","3","/">>
UsersBot == <<"/","u","s","e","r","s","/","b","o","t">>
Users42 == <<"/","u","s","e","r","s","/","4","2","/">>
Users42Guilds == <<"/","u","s","e","r","s","/","4","2","/","g","u","i","l","d","s">>
UsersEmptyId == <<"/","u","s","e","r","s","/","/">>

\* Characters of the drawn concrete routes.
PathChars == {"/", "a", "{", ":"}

\* Pieces of the drawn route map keys; "P" stands for the placeholder {:a}.
KeyTokens == {"/", "a", "P"}

RECURSIVE expandKey(_)
expandKey(ts) ==
    IF ts = <<>> THEN <<>>
    ELSE (IF Head(ts) = "P" THEN <<"{", ":", "a", "}">> ELSE <<Head(ts)>>)
         \o expandKey(Tail(ts))

SeqsUpTo(S, n) == UNION {[1..k -> S] : k \in 0..n}

\* Keys that are not built from KeyTokens: the default template, a second
\* placeholder name, characters that escapeRegExp escapes, and near-misses
\* of the placeholder syntax (upper-case name, empty name, no colon).
ExtraKeys ==
    { UsersTemplate,
      <<"/", "{", ":", "a", "}", "/", "{", ":", "b", "}">>,
      <<".", "{", ":", "a", "}">>,
      <<"/", "{", ":", "A", "}">>,
      <<"/", "{", ":", "}">>,
      <<"/", "{", "a", "}">> }

ExtraPaths ==
    { UsersRoute123, GuildsRoute123, UsersBot, Users42, Users42Guilds,
      UsersEmptyId, <<"/", "a", "/", "a", "/">>, <<"b", "a">> }

MatchKeys == {expandKey(ts) : ts \in SeqsUpTo(KeyTokens, MaxKeyTokens)} \cup ExtraKeys
MatchPaths == SeqsUpTo(PathChars, MaxPathLen) \cup ExtraPaths

InitMatch ==
    /\ mRoute \in MatchPaths
    /\ mKey \in MatchKeys
    /\ mPc = "call"
    /\ mResult = FALSE

TestMatch ==
    /\ mPc = "call"
    /\ mPc' = "returned"
    /\ mResult' = testParameterizedMatch(mRoute, mKey)
    /\ UNCHANGED <<mRoute, mKey, userAgent, gatewayVars, restVars, installVars, moduleVars>>

\* ---------------------------------------------------------------------
\* The matching relation in the words of the specification: a template is
\* a list of literal characters and placeholders; a placeholder stands for
\* one or more characters other than '/'.
\* ---------------------------------------------------------------------
RECURSIVE TemplateTokens(_)
TemplateTokens(t) ==
    IF t = <<>> THEN <<>>
    ELSE LET n == paramLenAt(t, <<"{", ":">>, <<"}">>)
         IN  IF n > 0
             THEN <<[param |-> TRUE, ch |-> ""]>> \o TemplateTokens(SubSeq(t, n + 1, Len(t)))
             ELSE <<[param |-> FALSE, ch |-> Head(t)]>> \o TemplateTokens(Tail(t))

HasPlaceholder(t) == \E i \in 1..Len(TemplateTokens(t)) : TemplateTokens(t)[i].param

\* The text s is exactly an instance of the token list toks.
RECURSIVE IsInstance(_, _)
IsInstance(toks, s) ==
    IF toks = <<>> THEN s = <<>>
    ELSE IF Head(toks).param
    THEN \E n \in 1..Len(s) :
            /\ \A k \in 1..n : s[k] # "/"
            /\ IsInstance(Tail(toks), SubSeq(s, n + 1, Len(s)))
    ELSE /\ s # <<>>
         /\ Head(s) = Head(toks).ch
         /\ IsInstance(Tail(toks), Tail(s))

\* Some prefix of the path is an instance of the whole template.
PrefixIsInstance(path, t) ==
    \E k \in 0..Len(path) : IsInstance(TemplateTokens(t), SubSeq(path, 1, k))

\* The literal text of the template before its first placeholder.
LiteralPrefix(t) ==
    LET toks == TemplateTokens(t)
        ps   == {i \in 1..Len(toks) : toks[i].param}
        p    == IF ps = {} THEN Len(toks) + 1 ELSE CHOOSE i \in ps : \A j \in ps : i <= j
    IN  [i \in 1..(p - 1) |-> toks[i].ch]

\* A concrete route carries no template syntax.
IsConcrete(path) == indexOf(path, <<"{", ":">>) = -1

\* C5: for a template with at least one placeholder, testParameterizedMatch
\* returns true exactly when the template, each placeholder standing for one
\* or more non-'/' characters and every other character taken literally,
\* matches a prefix of the path; a template without placeholder never
\* matches; '/users/123/' matches '/users/{:id}/', '/guilds/123/' does not,
\* and a placeholder matches neither an empty segment nor text with '/'.
C5_MatchIsTemplatePrefix ==
    mPc = "returned" =>
        /\ mResult = (HasPlaceholder(mKey) /\ PrefixIsInstance(mRoute, mKey))
        /\ (mRoute = UsersRoute123 /\ mKey = UsersTemplate => mResult = TRUE)
        /\ (mRoute = GuildsRoute123 /\ mKey = UsersTemplate => mResult = FALSE)
        /\ (mRoute = UsersEmptyId /\ mKey = UsersTemplate => mResult = FALSE)

\* C6 as claimed: a concrete path that shares the template's literal prefix
\* and supplies a non-empty segment for the first placeholder matches, also
\* when what follows the placeholder in the template is missing from the
\* path; e.g. match('/users/bot', '/users/{:id}/') is true.
C6_FirstSegmentSuffices ==
    ( /\ mPc = "returned"
      /\ HasPlaceholder(mKey)
      /\ IsConcrete(mRoute)
      /\ startsWith(mRoute, LiteralPrefix(mKey))
      /\ Len(mRoute) > Len(LiteralPrefix(mKey))
      /\ mRoute[Len(LiteralPrefix(mKey)) + 1] # "/" )
    => mResult = TRUE

\* C6 amended: the match is a prefix match on the path, not on the template:
\* testParameterizedMatch returns true only when some prefix of the path is
\* an instance of the entire template, the literal text after the first
\* placeholder included, and what the path holds beyond that prefix is not
\* examined; match('/users/bot', '/users/{:id}/') is false and
\* match('/users/42/guilds', '/users/{:id}/') is true.
C6_WholeTemplateRequired ==
    mPc = "returned" =>
        /\ (mResult = TRUE => PrefixIsInstance(mRoute, mKey))
        /\ (mResult = TRUE /\ IsConcrete(mRoute) =>
                \A c \in {"/", "a"} : testParameterizedMatch(mRoute \o <<c>>, mKey))
        /\ (mRoute = UsersBot /\ mKey = UsersTemplate => mResult = FALSE)
        /\ (mRoute = Users42Guilds /\ mKey = UsersTemplate => mResult = TRUE)

\* The call of the spec's example has returned: '/users/bot' against
\* '/users/{:id}/' shares the literal prefix, supplies 'bot', and is rejected.
C6_Witness ==
    /\ mPc = "returned"
    /\ mRoute = UsersBot
    /\ mKey = UsersTemplate
    /\ mResult = FALSE


\* ---------------------------------------------------------------------
\* JavaScript objects: functions from the keys present to their values
\* ---------------------------------------------------------------------
EmptyObject == <<>>
Has(o, k) == k \in DOMAIN o
Put(o, k, v) == [x \in (DOMAIN o) \cup {k} |-> IF x = k THEN v ELSE o[x]]
Del(o, k) == [x \in (DOMAIN o) \ {k} |-> o[x]]
\* JavaScript null
Null == "null"

\* ---------------------------------------------------------------------
\* patch-user-agent: the configured identity string
\* ---------------------------------------------------------------------
\* 'Mozilla/5.0 (Windows NT 10.0; Win64; x64) AppleWebKit/537.36 (KHTML, like
\* Gecko) Chrome/109.0.0.0 Safari/537.36', as characters: the value is
\* written into request headers, whose values the code handles as text.
DEFAULT_USER_AGENT ==
    <<"M","o","z","i","l","l","a","/","5",".","0"," ","(","W","i","n",
      "d","o","w","s"," ","N","T"," ","1","0",".","0",";"," ","W","i",
      "n","6","4",";"," ","x","6","4",")"," ","A","p","p","l","e","W",
      "e","b","K","i","t","/","5","3","7",".","3","6"," ","(","K","H",
      "T","M","L",","," ","l","i","k","e"," ","G","e","c","k","o",")",
      " ","C","h","r","o","m","e","/","1","0","9",".","0",".","0",".",
      "0"," ","S","a","f","a","r","i","/","5","3","7",".","3","6">>

\* getUserAgent(client): patched?.patches?.userAgent?.value ?? DEFAULT_USER_AGENT
\* A user agent is a string, a sequence of characters. A value that is
\* missing is no sequence of characters: so the strings 'null' and
\* 'undefined' are told apart from null and undefined.
NullValue == <<"null">>
UndefinedValue == <<"undefined">>

\* What client.patches.userAgent.value is set to: the default, another
\* user agent, the string 'null', and the two missing values.
UserAgentValues ==
    { DEFAULT_USER_AGENT,
      <<"c","u","s","t","o","m","/","1",".","0">>,
      <<"n","u","l","l">>,
      NullValue,
      UndefinedValue }

\* `ua` is client.patches.userAgent.value: `??` replaces null and undefined
\* and nothing else, not the empty string either.
getUserAgent(ua) ==
    IF ua = NullValue \/ ua = UndefinedValue THEN DEFAULT_USER_AGENT ELSE ua

\* ---------------------------------------------------------------------
\* patch-gateway: opcodes, events, hooks and the default patches
\* ---------------------------------------------------------------------
OpDispatch == 0
OpHeartbeat == 1
OpIdentify == 2
Opcodes == {OpDispatch, OpHeartbeat, OpIdentify}

EventReady == "READY"
EventMessageCreate == "MESSAGE_CREATE"
EventNames == {EventReady, EventMessageCreate}

\* WebSocketShardEvents of @discordjs/ws
WsDispatch == "dispatch"
WsHello == "hello"
WsEvents == {WsDispatch, WsHello}

IdentifyCapabilities == 4093
ClientBuildNumber == 171842

\* The properties block written by the default Identify patch.
IdentifyProperties(ua) ==
    [ browser |-> "Chrome",
      browser_user_agent |-> getUserAgent(ua),
      browser_version |-> "109.0.0.0",
      client_build_number |-> ClientBuildNumber,
      client_event_source |-> Null,
      device |-> "",
      os |-> "Windows",
      os_version |-> "10",
      referrer |-> "",
      referrer_current |-> "",
      referring_domain |-> "",
      referring_domain_current |-> "",
      release_channel |-> "stable",
      system_locale |-> "en-CA" ]

ReadyApplication == [id |-> "0", flags |-> 0]

\* Hooks are named; GatewayHook gives what the named function returns.
\*   identifyOutbound, readyInbound: the default patches' functions;
\*   renameEvent: a packet hook that changes the event name t to READY;
\*   markPacket, markEvent: hooks that append their name to the list
\*     packet.d.trail, which they create when d has none.
GatewayHooks == {"identifyOutbound", "readyInbound", "renameEvent", "markPacket", "markEvent"}

\* A hook that dereferences packet.d throws a TypeError when d is missing:
\* every hook but renameEvent, which writes packet.t only.
GatewayHookThrows(h, packet) ==
    /\ h \in {"identifyOutbound", "readyInbound", "markPacket", "markEvent"}
    /\ ~Has(packet, "d")

AppendTrail(packet, mark) ==
    LET d     == packet["d"]
        trail == IF Has(d, "trail") THEN d["trail"] ELSE <<>>
    IN  Put(packet, "d", Put(d, "trail", Append(trail, mark)))

\* The hooks with the Ready hook keeping an application block the frame
\* already carries.
GatewayHookKeepsApplication(h, ua, packet) ==
    CASE h = "identifyOutbound" ->
            LET d1 == Put(packet["d"], "capabilities", IdentifyCapabilities)
                d2 == Put(d1, "properties", IdentifyProperties(ua))
            IN  Put(packet, "d", Del(d2, "shard"))
      [] h = "readyInbound" ->
            IF Has(packet["d"], "application") THEN packet
            ELSE Put(packet, "d", Put(packet["d"], "application", ReadyApplication))
      [] h = "renameEvent" -> Put(packet, "t", EventReady)
      [] h = "markPacket" -> AppendTrail(packet, "markPacket")
      [] h = "markEvent" -> AppendTrail(packet, "markEvent")

\* The hooks with the Identify hook leaving d.shard in place.
GatewayHookKeepsShard(h, ua, packet) ==
    CASE h = "identifyOutbound" ->
            LET d1 == Put(packet["d"], "capabilities", IdentifyCapabilities)
                d2 == Put(d1, "properties", IdentifyProperties(ua))
            IN  Put(packet, "d", d2)
      [] h = "readyInbound" ->
            Put(packet, "d", Put(packet["d"], "application", ReadyApplication))
      [] h = "renameEvent" -> Put(packet, "t", EventReady)
      [] h = "markPacket" -> AppendTrail(packet, "markPacket")
      [] h = "markEvent" -> AppendTrail(packet, "markEvent")

GatewayHook(h, ua, packet) ==
    CASE h = "identifyOutbound" ->
            LET d1 == Put(packet["d"], "capabilities", IdentifyCapabilities)
                d2 == Put(d1, "properties", IdentifyProperties(ua))
            IN  Put(packet, "d", Del(d2, "shard"))
      [] h = "readyInbound" ->
            Put(packet, "d", Put(packet["d"], "application", ReadyApplication))
      [] h = "renameEvent" -> Put(packet, "t", EventReady)
      [] h = "markPacket" -> AppendTrail(packet, "markPacket")
      [] h = "markEvent" -> AppendTrail(packet, "markEvent")

DEFAULT_GATEWAY_PACKET_PATCHES ==
    (OpIdentify :> [outbound |-> "identifyOutbound"])

DEFAULT_GATEWAY_EVENT_PATCHES ==
    (EventReady :> [inbound |-> "readyInbound"])

\* Patch objects a reconfiguration may store in the registry.
PacketPatchChoices ==
    { [outbound |-> "identifyOutbound"],
      [inbound |-> "renameEvent"],
      [inbound |-> "markPacket", outbound |-> "markPacket"] }

EventPatchChoices ==
    { [inbound |-> "readyInbound"],
      [inbound |-> "markEvent"],
      EmptyObject }

\* Frames handed to shard.send.
BotProperties == [os |-> "linux", browser |-> "discord.js", device |-> "discord.js"]
OutboundFrames ==
    { [op |-> OpIdentify,
       d |-> [token |-> "tok", properties |-> BotProperties, shard |-> <<0, 1>>]],
      [op |-> OpIdentify, d |-> [token |-> "tok", capabilities |-> 0]],
      [op |-> OpIdentify],
      [op |-> OpHeartbeat, d |-> [seq |-> 41]],
      [op |-> OpDispatch, t |-> EventMessageCreate, d |-> [content |-> "hi"]],
      [d |-> [content |-> "no opcode"]],
      EmptyObject }
SendArgs == {<<>>, <<TRUE>>}

\* Frames carried by the payload of a ws.emit call.
InboundFrames ==
    { [op |-> OpDispatch, t |-> EventReady, s |-> 1, d |-> [v |-> 10]],
      [op |-> OpDispatch, t |-> EventReady, s |-> 1,
       d |-> [v |-> 10, application |-> [id |-> "77", flags |-> 8]]],
      [op |-> OpDispatch, t |-> EventReady, s |-> 1],
      [op |-> OpDispatch, t |-> EventMessageCreate, s |-> 2, d |-> [content |-> "hi"]],
      [op |-> OpHeartbeat, d |-> [seq |-> 41]],
      [t |-> EventReady, d |-> [v |-> 10]] }

\* The error object a hook throws, by the hook that threw it; no error.
HookError(h) == <<"TypeError", h>>
NoError == <<>>

NoGatewayCall ==
    [kind |-> "none", event |-> "", input |-> EmptyObject, args |-> <<>>,
     calls |-> <<>>, threw |-> FALSE, error |-> NoError, real |-> <<>>]

InitRegistry ==
    /\ userAgent = DEFAULT_USER_AGENT
    /\ packets = DEFAULT_GATEWAY_PACKET_PATCHES
    /\ events = DEFAULT_GATEWAY_EVENT_PATCHES

InitGateway ==
    /\ gwLast = NoGatewayCall


\* ---------------------------------------------------------------------
\* patch-gateway: the wrappers
\* ---------------------------------------------------------------------
\* obj[key]?.hook of the code: the hook stored under key, if any.
HasHook(registry, key, hook) ==
    /\ key \in DOMAIN registry
    /\ Has(registry[key], hook)

\* One hook invocation: the record of the call, whether it threw, and what.
HookCall(point, h, ua, packet) ==
    [ point  |-> point,
      hook   |-> h,
      input  |-> packet,
      threw  |-> GatewayHookThrows(h, packet),
      error  |-> IF GatewayHookThrows(h, packet) THEN HookError(h) ELSE NoError,
      output |-> IF GatewayHookThrows(h, packet) THEN EmptyObject
                 ELSE GatewayHook(h, ua, packet) ]

\* The wrapped shard.send with the additional arguments not forwarded.
patchShardOutboundDropsArgs(ua, pk, data, args) ==
    IF Has(data, "op") /\ HasHook(pk, data["op"], "outbound")
    THEN LET c == HookCall("packet.outbound", pk[data["op"]]["outbound"], ua, data)
         IN  [ kind |-> "send", event |-> "", input |-> data, args |-> args,
               calls |-> <<c>>, threw |-> c.threw, error |-> c.error,
               real |-> IF c.threw THEN <<>> ELSE <<[frame |-> c.output, args |-> <<>>]>> ]
    ELSE [ kind |-> "send", event |-> "", input |-> data, args |-> args,
           calls |-> <<>>, threw |-> FALSE, error |-> NoError,
           real |-> <<[frame |-> data, args |-> <<>>]>> ]

\* shard.send as replaced by patchShardOutbound: the call's record.
patchShardOutbound(ua, pk, data, args) ==
    IF Has(data, "op") /\ HasHook(pk, data["op"], "outbound")
    THEN LET c == HookCall("packet.outbound", pk[data["op"]]["outbound"], ua, data)
         IN  [ kind |-> "send", event |-> "", input |-> data, args |-> args,
               calls |-> <<c>>, threw |-> c.threw, error |-> c.error,
               real |-> IF c.threw THEN <<>> ELSE <<[frame |-> c.output, args |-> args]>> ]
    ELSE [ kind |-> "send", event |-> "", input |-> data, args |-> args,
           calls |-> <<>>, threw |-> FALSE, error |-> NoError,
           real |-> <<[frame |-> data, args |-> args]>> ]

\* The stages with the event patch looked up under the name the frame
\* arrived with.
InboundStagesOriginalName(ua, pk, ev, data) ==
    LET opcode == data["op"]
        c1     == HookCall("packet.inbound",
                           IF HasHook(pk, opcode, "inbound") THEN pk[opcode]["inbound"] ELSE "",
                           ua, data)
        has1   == HasHook(pk, opcode, "inbound")
        threw1 == has1 /\ c1.threw
        data1  == IF has1 /\ ~c1.threw THEN c1.output ELSE data
        event  == IF Has(data, "t") THEN data["t"] ELSE "undefined"
        has2   == ~threw1 /\ opcode = OpDispatch /\ HasHook(ev, event, "inbound")
        c2     == HookCall("event.inbound",
                           IF has2 THEN ev[event]["inbound"] ELSE "",
                           ua, data1)
        threw2 == has2 /\ c2.threw
        data2  == IF has2 /\ ~c2.threw THEN c2.output ELSE data1
    IN  [ calls |-> (IF has1 THEN <<c1>> ELSE <<>>) \o (IF has2 THEN <<c2>> ELSE <<>>),
          threw |-> threw1 \/ threw2,
          error |-> IF threw1 THEN c1.error ELSE IF threw2 THEN c2.error ELSE NoError,
          data  |-> data2 ]

\* The stages with an error thrown by the packet hook caught: the frame goes
\* on to the event stage as it arrived.
InboundStagesSwallowsPacketError(ua, pk, ev, data) ==
    LET opcode == data["op"]
        c1     == HookCall("packet.inbound",
                           IF HasHook(pk, opcode, "inbound") THEN pk[opcode]["inbound"] ELSE "",
                           ua, data)
        has1   == HasHook(pk, opcode, "inbound")
        data1  == IF has1 /\ ~c1.threw THEN c1.output ELSE data
        event  == IF Has(data1, "t") THEN data1["t"] ELSE "undefined"
        has2   == opcode = OpDispatch /\ HasHook(ev, event, "inbound")
        c2     == HookCall("event.inbound",
                           IF has2 THEN ev[event]["inbound"] ELSE "",
                           ua, data1)
        threw2 == has2 /\ c2.threw
        data2  == IF has2 /\ ~c2.threw THEN c2.output ELSE data1
    IN  [ calls |-> (IF has1 THEN <<c1>> ELSE <<>>) \o (IF has2 THEN <<c2>> ELSE <<>>),
          threw |-> threw2,
          error |-> IF threw2 THEN c2.error ELSE NoError,
          data  |-> data2 ]

\* The two hook stages applied to a frame that has an op field: the packet
\* stage under the frame's opcode; then, when that opcode is Dispatch, the
\* event stage under the event name t of the packet stage's result.
\* Returns the calls made, whether one threw, and the resulting frame.
InboundStages(ua, pk, ev, data) ==
    LET opcode == data["op"]
        c1     == HookCall("packet.inbound",
                           IF HasHook(pk, opcode, "inbound") THEN pk[opcode]["inbound"] ELSE "",
                           ua, data)
        has1   == HasHook(pk, opcode, "inbound")
        threw1 == has1 /\ c1.threw
        data1  == IF has1 /\ ~c1.threw THEN c1.output ELSE data
        event  == IF Has(data1, "t") THEN data1["t"] ELSE "undefined"
        has2   == ~threw1 /\ opcode = OpDispatch /\ HasHook(ev, event, "inbound")
        c2     == HookCall("event.inbound",
                           IF has2 THEN ev[event]["inbound"] ELSE "",
                           ua, data1)
        threw2 == has2 /\ c2.threw
        data2  == IF has2 /\ ~c2.threw THEN c2.output ELSE data1
    IN  [ calls |-> (IF has1 THEN <<c1>> ELSE <<>>) \o (IF has2 THEN <<c2>> ELSE <<>>),
          threw |-> threw1 \/ threw2,
          error |-> IF threw1 THEN c1.error ELSE IF threw2 THEN c2.error ELSE NoError,
          data  |-> data2 ]

\* The wrapped ws.emit with the patched frame not written back into the
\* event payload.
patchShardInboundNoWriteBack(ua, pk, ev, event, payload) ==
    IF event # WsDispatch \/ ~Has(payload["data"], "op")
    THEN [ kind |-> "emit", event |-> event, input |-> payload, args |-> <<>>,
           calls |-> <<>>, threw |-> FALSE, error |-> NoError,
           real |-> <<[event |-> event, payload |-> payload]>> ]
    ELSE LET r == InboundStages(ua, pk, ev, payload["data"])
         IN  [ kind |-> "emit", event |-> event, input |-> payload, args |-> <<>>,
               calls |-> r.calls, threw |-> r.threw, error |-> r.error,
               real |-> IF r.threw THEN <<>>
                        ELSE <<[event |-> event, payload |-> payload]>> ]

\* The wrapped ws.emit without the test for the Dispatch event: the frame
\* of every event goes through the stages.
patchShardInboundEveryEvent(ua, pk, ev, event, payload) ==
    IF ~Has(payload["data"], "op")
    THEN [ kind |-> "emit", event |-> event, input |-> payload, args |-> <<>>,
           calls |-> <<>>, threw |-> FALSE, error |-> NoError,
           real |-> <<[event |-> event, payload |-> payload]>> ]
    ELSE LET r == InboundStages(ua, pk, ev, payload["data"])
         IN  [ kind |-> "emit", event |-> event, input |-> payload, args |-> <<>>,
               calls |-> r.calls, threw |-> r.threw, error |-> r.error,
               real |-> IF r.threw THEN <<>>
                        ELSE <<[event |-> event, payload |-> Put(payload, "data", r.data)]>> ]

\* ws.emit as replaced by patchShardInbound (the WebSocketManager variant):
\* events other than Dispatch are forwarded as they are; the frame of a
\* Dispatch event goes through the stages and is written back into the
\* payload before the original emit is called.
patchShardInbound(ua, pk, ev, event, payload) ==
    IF event # WsDispatch \/ ~Has(payload["data"], "op")
    THEN [ kind |-> "emit", event |-> event, input |-> payload, args |-> <<>>,
           calls |-> <<>>, threw |-> FALSE, error |-> NoError,
           real |-> <<[event |-> event, payload |-> payload]>> ]
    ELSE LET r == InboundStages(ua, pk, ev, payload["data"])
         IN  [ kind |-> "emit", event |-> event, input |-> payload, args |-> <<>>,
               calls |-> r.calls, threw |-> r.threw, error |-> r.error,
               real |-> IF r.threw THEN <<>>
                        ELSE <<[event |-> event, payload |-> Put(payload, "data", r.data)]>> ]

\* shard.onPacket as replaced by the older patchShardInbound (the variant
\* that wraps each WebSocketShard): every packet with an op field goes
\* through the stages, then the original onPacket is called.
patchShardInboundOnPacket(ua, pk, ev, data, args) ==
    IF ~Has(data, "op")
    THEN [ kind |-> "onPacket", event |-> "", input |-> data, args |-> args,
           calls |-> <<>>, threw |-> FALSE, error |-> NoError,
           real |-> <<[frame |-> data, args |-> args]>> ]
    ELSE LET r == InboundStages(ua, pk, ev, data)
         IN  [ kind |-> "onPacket", event |-> "", input |-> data, args |-> args,
               calls |-> r.calls, threw |-> r.threw, error |-> r.error,
               real |-> IF r.threw THEN <<>>
                        ELSE <<[frame |-> r.data, args |-> args]>> ]

\* ---------------------------------------------------------------------
\* Gateway actions
\* ---------------------------------------------------------------------
\* The application sends a frame through a wrapped shard.
ShardSend(frames, argss) ==
    \E data \in frames, args \in argss :
        /\ gwLast' = patchShardOutbound(userAgent, packets, data, args)
        /\ UNCHANGED <<userAgent, packets, events, matchVars, restVars, installVars, moduleVars>>

\* The websocket manager emits an event through the wrapped emit.
WsEmit(wsEvents, frames) ==
    \E event \in wsEvents, data \in frames :
        /\ gwLast' = patchShardInbound(userAgent, packets, events, event,
                                       [data |-> data, shardId |-> 0])
        /\ UNCHANGED <<userAgent, packets, events, matchVars, restVars, installVars, moduleVars>>

\* A shard of the older variant receives a packet.
ShardOnPacket(frames) ==
    \E data \in frames :
        /\ gwLast' = patchShardInboundOnPacket(userAgent, packets, events, data, <<>>)
        /\ UNCHANGED <<userAgent, packets, events, matchVars, restVars, installVars, moduleVars>>

\* Reconfiguration at run time: client.patches.gateway.packets[op] = patch
SetPacketPatch(ops, patches) ==
    \E op \in ops, patch \in patches :
        /\ packets' = Put(packets, op, patch)
        /\ gwLast' = NoGatewayCall
        /\ UNCHANGED <<userAgent, events, matchVars, restVars, installVars, moduleVars>>

\* delete client.patches.gateway.packets[op]
DeletePacketPatch ==
    \E op \in DOMAIN packets :
        /\ packets' = Del(packets, op)
        /\ gwLast' = NoGatewayCall
        /\ UNCHANGED <<userAgent, events, matchVars, restVars, installVars, moduleVars>>

\* client.patches.gateway.events[name] = patch
SetEventPatch(names, patches) ==
    \E name \in names, patch \in patches :
        /\ events' = Put(events, name, patch)
        /\ gwLast' = NoGatewayCall
        /\ UNCHANGED <<userAgent, packets, matchVars, restVars, installVars, moduleVars>>

\* delete client.patches.gateway.events[name]
DeleteEventPatch ==
    \E name \in DOMAIN events :
        /\ events' = Del(events, name)
        /\ gwLast' = NoGatewayCall
        /\ UNCHANGED <<userAgent, packets, matchVars, restVars, installVars, moduleVars>>

\* client.patches.userAgent.value = v
SetUserAgent(values) ==
    \E v \in values :
        /\ v # userAgent
        /\ userAgent' = v
        /\ gwLast' = NoGatewayCall
        /\ UNCHANGED <<packets, events, matchVars, restVars, installVars, moduleVars>>

NextGateway ==
    \/ ShardSend(OutboundFrames, SendArgs)
    \/ WsEmit(WsEvents, InboundFrames)
    \/ ShardOnPacket(InboundFrames)
    \/ SetPacketPatch(Opcodes, PacketPatchChoices)
    \/ DeletePacketPatch
    \/ SetEventPatch(EventNames, EventPatchChoices)
    \/ DeleteEventPatch
    \/ SetUserAgent(UserAgentValues)


\* ---------------------------------------------------------------------
\* Gateway claims
\* ---------------------------------------------------------------------
\* The frame an inbound call received and the frame it handed downstream.
ReceivedFrame(g) == IF g.kind = "emit" THEN g.input["data"] ELSE g.input
DeliveredFrame(g) == IF g.kind = "emit" THEN g.real[1].payload["data"] ELSE g.real[1].frame

\* The call was an inbound delivery of a frame that carries an op field.
InboundFrameCall(g) ==
    /\ \/ g.kind = "onPacket"
       \/ g.kind = "emit" /\ g.event = WsDispatch
    /\ Has(ReceivedFrame(g), "op")

EventNameOf(frame) == IF Has(frame, "t") THEN frame["t"] ELSE "undefined"

\* C1: for every inbound dispatch frame whose hooks return, the packet-level
\* inbound hook registered for the frame's opcode (if any) is called first,
\* with the frame; the event-level inbound hook (if any) is the one
\* registered under the event name t of the packet hook's output and is
\* called next, with that output; the frame delivered downstream is the
\* last hook's return value.
C1_PacketHookThenEventHookOfNewName ==
    ( /\ InboundFrameCall(gwLast)
      /\ ReceivedFrame(gwLast)["op"] = OpDispatch
      /\ ~gwLast.threw )
    =>
    LET f    == ReceivedFrame(gwLast)
        hasP == HasHook(packets, OpDispatch, "inbound")
        mid  == IF hasP THEN gwLast.calls[1].output ELSE f
        hasE == HasHook(events, EventNameOf(mid), "inbound")
        n    == (IF hasP THEN 1 ELSE 0) + (IF hasE THEN 1 ELSE 0)
    IN  /\ Len(gwLast.calls) = n
        /\ hasP => /\ gwLast.calls[1].point = "packet.inbound"
                   /\ gwLast.calls[1].hook = packets[OpDispatch]["inbound"]
                   /\ gwLast.calls[1].input = f
        /\ hasE => /\ gwLast.calls[n].point = "event.inbound"
                   /\ gwLast.calls[n].hook = events[EventNameOf(mid)]["inbound"]
                   /\ gwLast.calls[n].input = mid
        /\ \A i \in 1..n :
              gwLast.calls[i].output =
                  GatewayHook(gwLast.calls[i].hook, userAgent, gwLast.calls[i].input)
        /\ Len(gwLast.real) = 1
        /\ DeliveredFrame(gwLast) = IF n = 0 THEN f ELSE gwLast.calls[n].output

\* A MESSAGE_CREATE dispatch frame arrived while the Dispatch packet patch
\* renames the event to READY and both names have an event hook, a different
\* one each: the hook of the new name ran, on the packet hook's output.
C1_Witness ==
    /\ InboundFrameCall(gwLast)
    /\ ReceivedFrame(gwLast)["op"] = OpDispatch
    /\ EventNameOf(ReceivedFrame(gwLast)) = EventMessageCreate
    /\ Len(gwLast.calls) = 2
    /\ gwLast.calls[1].hook = "renameEvent"
    /\ HasHook(events, EventMessageCreate, "inbound")
    /\ HasHook(events, EventReady, "inbound")
    /\ events[EventMessageCreate]["inbound"] # events[EventReady]["inbound"]
    /\ gwLast.calls[2].hook = events[EventReady]["inbound"]
    /\ Len(gwLast.real) = 1

\* C9: for every outbound send on a wrapped shard: if the frame has no op
\* field, or no packet patch with an outbound hook is registered for its
\* opcode, the real send is invoked exactly once with the identical frame and
\* the identical additional arguments; otherwise the outbound hook is called
\* with the frame and, when it returns, the real send is invoked exactly once
\* with the hook's return value and the same additional arguments.
C9_OutboundPassThroughOrHookResult ==
    gwLast.kind = "send" =>
        IF ~Has(gwLast.input, "op") \/ ~HasHook(packets, gwLast.input["op"], "outbound")
        THEN /\ gwLast.calls = <<>>
             /\ gwLast.real = <<[frame |-> gwLast.input, args |-> gwLast.args]>>
        ELSE /\ Len(gwLast.calls) = 1
             /\ gwLast.calls[1].hook = packets[gwLast.input["op"]]["outbound"]
             /\ gwLast.calls[1].input = gwLast.input
             /\ ~gwLast.threw =>
                    gwLast.real = <<[frame |-> GatewayHook(gwLast.calls[1].hook, userAgent, gwLast.input),
                                     args |-> gwLast.args]>>

\* An Identify frame was sent with an additional argument and reached the
\* real send rewritten by the registered outbound hook.
C9_Witness ==
    /\ gwLast.kind = "send"
    /\ Has(gwLast.input, "op")
    /\ HasHook(packets, gwLast.input["op"], "outbound")
    /\ gwLast.args = <<TRUE>>
    /\ Len(gwLast.real) = 1
    /\ gwLast.real[1].frame # gwLast.input
    /\ gwLast.real[1].args = <<TRUE>>

\* C10 as claimed: for every opcode, Dispatch included, with no registered
\* packet patch, every inbound frame of that opcode is delivered downstream
\* unchanged (no hook having thrown).
C10_NoPacketPatchMeansUnchanged ==
    ( /\ InboundFrameCall(gwLast)
      /\ ReceivedFrame(gwLast)["op"] \notin DOMAIN packets
      /\ ~gwLast.threw )
    => /\ Len(gwLast.real) = 1
       /\ DeliveredFrame(gwLast) = ReceivedFrame(gwLast)

\* C10 amended: for every opcode with no registered packet patch, every
\* inbound frame of that opcode is delivered downstream unchanged, except a
\* Dispatch frame whose event name has an event patch with an inbound hook:
\* that frame is delivered as the event hook's return value (and not at all
\* when the hook throws).
C10_NoPacketPatchMeansOnlyEventHook ==
    ( /\ InboundFrameCall(gwLast)
      /\ ReceivedFrame(gwLast)["op"] \notin DOMAIN packets )
    =>
    LET f == ReceivedFrame(gwLast)
    IN  IF f["op"] = OpDispatch /\ HasHook(events, EventNameOf(f), "inbound")
        THEN /\ Len(gwLast.calls) = 1
             /\ gwLast.calls[1].hook = events[EventNameOf(f)]["inbound"]
             /\ IF gwLast.threw THEN gwLast.real = <<>>
                ELSE /\ Len(gwLast.real) = 1
                     /\ DeliveredFrame(gwLast) =
                            GatewayHook(gwLast.calls[1].hook, userAgent, f)
        ELSE /\ gwLast.calls = <<>>
             /\ Len(gwLast.real) = 1
             /\ DeliveredFrame(gwLast) = f

\* A READY dispatch frame arrived while no packet patch is registered for
\* Dispatch and was delivered changed, by the READY event hook alone.
C10_Witness ==
    /\ InboundFrameCall(gwLast)
    /\ ReceivedFrame(gwLast)["op"] = OpDispatch
    /\ OpDispatch \notin DOMAIN packets
    /\ EventNameOf(ReceivedFrame(gwLast)) = EventReady
    /\ Len(gwLast.calls) = 1
    /\ gwLast.calls[1].point = "event.inbound"
    /\ Len(gwLast.real) = 1
    /\ DeliveredFrame(gwLast) # ReceivedFrame(gwLast)


\* ---------------------------------------------------------------------
\* patch-rest: routes, hooks and the default patches
\* ---------------------------------------------------------------------
\* Routes.gatewayBot() and Routes.gateway() of discord-api-types
RouteGatewayBot == <<"/","g","a","t","e","w","a","y","/","b","o","t">>
RouteGateway == <<"/","g","a","t","e","w","a","y">>
\* Two further templates, which both match '/c/1', and that route
TemplateC == <<"/","c","/","{",":","i","}">>
TemplateK == <<"/","{",":","k","}","/","1">>
RouteC1 == <<"/","c","/","1">>

\* `undefined`: no patch
NoPatch == "undefined"

\* Route patch objects, by identity. "gatewayBot" and "users" are the two
\* objects of DEFAULT_ROUTE_PATCHES; the others are objects a
\* reconfiguration may store:
\*   "full": every hook, no redirect;
\*   "reroute": a redirect and a pre hook that returns a request for another
\*   route.
RoutePatches ==
    [ gatewayBot |-> [redirect |-> RouteGateway, post |-> "gatewayBotPost"],
      users      |-> [resolve |-> "stripBearer"],
      full       |-> [pre |-> "preMark", post |-> "postMark", resolve |-> "resolveMark"],
      reroute    |-> [redirect |-> RouteGateway, pre |-> "preReroute", post |-> "postMark"] ]

RoutePatchIds == DOMAIN RoutePatches

\* patch?.hook of the code
PatchHas(id, field) == id # NoPatch /\ Has(RoutePatches[id], field)

\* createDefaults(): new Map(Object.entries(DEFAULT_ROUTE_PATCHES))
DEFAULT_ROUTE_PATCHES ==
    << [key |-> RouteGatewayBot, patch |-> "gatewayBot"],
       [key |-> UsersTemplate, patch |-> "users"] >>

\* Keys and patch objects of the writes a reconfiguration makes.
WriteKeys == {RouteGateway, Users42, TemplateC, TemplateK}
\* The keys a delete may name: those of the default map and those written.
RouteKeys == {RouteGatewayBot, UsersTemplate} \cup WriteKeys
WritePatches == {"full", "reroute", "users"}
\* The writes: any of the objects under '/users/42/', the two new objects
\* under '/gateway', one of them under each template.
RouteWrites ==
    { w \in WriteKeys \X WritePatches :
        /\ w[1] = TemplateC => w[2] = "full"
        /\ w[1] = TemplateK => w[2] = "reroute"
        /\ w[2] = "users" => w[1] = Users42 }

\* Routes the application requests.
RequestRoutes == {RouteGatewayBot, RouteGateway, Users42, Users42Guilds, RouteC1}

\* Map.prototype.get
routesGet(m, key) ==
    LET hits == {i \in 1..Len(m) : m[i].key = key}
    IN  IF hits = {} THEN NoPatch ELSE m[CHOOSE i \in hits : TRUE].patch

\* Map.prototype.set: a new key is appended, an existing key keeps its place.
routesSet(m, key, patch) ==
    IF \E i \in 1..Len(m) : m[i].key = key
    THEN [i \in 1..Len(m) |-> IF m[i].key = key THEN [key |-> key, patch |-> patch] ELSE m[i]]
    ELSE Append(m, [key |-> key, patch |-> patch])

\* Map.prototype.delete
RECURSIVE routesDelete(_, _)
routesDelete(m, key) ==
    IF m = <<>> THEN <<>>
    ELSE IF Head(m).key = key THEN routesDelete(Tail(m), key)
    ELSE <<Head(m)>> \o routesDelete(Tail(m), key)

\* for (const [key, val] of routes.entries())
\*     if (testParameterizedMatch(route, key)) { patch = val; break; }
RECURSIVE firstParameterizedMatch(_, _)
firstParameterizedMatch(m, route) ==
    IF m = <<>> THEN NoPatch
    ELSE IF testParameterizedMatch(route, Head(m).key) THEN Head(m).patch
    ELSE firstParameterizedMatch(Tail(m), route)

\* The loop without its break: the last matching entry wins.
RECURSIVE lastParameterizedMatch(_, _)
lastParameterizedMatch(m, route) ==
    IF m = <<>> THEN NoPatch
    ELSE LET later == lastParameterizedMatch(Tail(m), route)
         IN  IF later # NoPatch THEN later
             ELSE IF testParameterizedMatch(route, Head(m).key) THEN Head(m).patch
             ELSE NoPatch

\* The first entry, in insertion order, whose key equals the route or
\* matches it as a template.
RECURSIVE firstExactOrParameterizedMatch(_, _)
firstExactOrParameterizedMatch(m, route) ==
    IF m = <<>> THEN NoPatch
    ELSE IF Head(m).key = route \/ testParameterizedMatch(route, Head(m).key)
    THEN Head(m).patch
    ELSE firstExactOrParameterizedMatch(Tail(m), route)

\* Lookups without the exact-key step, and with the last match winning.
requestPatchNoExactStep(m, route) == firstExactOrParameterizedMatch(m, route)
requestPatchLastMatch(m, route) ==
    IF routesGet(m, route) # NoPatch THEN routesGet(m, route)
    ELSE lastParameterizedMatch(m, route)

\* The lookup made in the route map as it was when the wrapper was
\* installed, not as it is when the request is made.
requestPatchCapturedAtInstall(m, route) ==
    IF routesGet(DEFAULT_ROUTE_PATCHES, route) # NoPatch
    THEN routesGet(DEFAULT_ROUTE_PATCHES, route)
    ELSE firstParameterizedMatch(DEFAULT_ROUTE_PATCHES, route)

\* The patch selection of the wrapped REST.request.
requestPatch(m, route) ==
    IF routesGet(m, route) # NoPatch THEN routesGet(m, route)
    ELSE firstParameterizedMatch(m, route)

\* The patch selection of the wrapped RequestManager.resolveRequest.
resolvePatch(m, route) ==
    IF routesGet(m, route) # NoPatch THEN routesGet(m, route)
    ELSE firstParameterizedMatch(m, route)


\* ---------------------------------------------------------------------
\* Header text: the names and values the wrappers read and write
\* ---------------------------------------------------------------------
HeaderAuthorization == <<"A","u","t","h","o","r","i","z","a","t","i","o","n">>
HeaderUserAgent == <<"U","s","e","r","-","A","g","e","n","t">>
HeaderTrace == <<"X","-","T","r","a","c","e">>
BearerPrefix == <<"B","e","a","r","e","r"," ">>
TokenText == <<"x","y","z">>
BearerToken == BearerPrefix \o TokenText
BotAgentText == <<"D","i","s","c","o","r","d","B","o","t">>
TraceText == <<"a",":","b">>

\* Headers are { form: "map", map: name -> value }, the form produced by
\* @discordjs/rest, { form: "list", items: <'Name: value' strings> }, the
\* other form RequestOptions allows, or { form: "none" } when not set.
MapHeaders(m) == [form |-> "map", map |-> m, items |-> <<>>]
ListHeaders(l) == [form |-> "list", map |-> EmptyObject, items |-> l]

\* What the original resolveRequest may return as headers.
ResolvedHeaders ==
    { MapHeaders((HeaderAuthorization :> BearerToken) @@ (HeaderUserAgent :> BotAgentText)),
      MapHeaders((HeaderAuthorization :> TokenText)),
      MapHeaders((HeaderUserAgent :> BotAgentText)),
      ListHeaders(<< HeaderAuthorization \o <<":", " ">> \o BearerToken,
                     HeaderTrace \o <<":", " ">> \o TraceText >>) }

\* What the original request may answer.
GatewayLimit == [total |-> 1000, remaining |-> 999, reset_after |-> 0, max_concurrency |-> 16]
Responses ==
    { [url |-> "wss://gateway.discord.gg"],
      [url |-> "wss://gateway.discord.gg", shards |-> 9, session_start_limit |-> GatewayLimit] }

\* ---------------------------------------------------------------------
\* patch-rest: the hooks
\* ---------------------------------------------------------------------
SessionTotal == 1
SessionRemaining == 1
SessionResetAfter == 14400000
SessionMaxConcurrency == 1
DefaultShards == 1

\* { ...a, ...b }: the keys of both, b's values winning.
Spread(a, b) == [k \in (DOMAIN a) \cup (DOMAIN b) |-> IF k \in DOMAIN b THEN b[k] ELSE a[k]]

\* String.prototype.replace(/^Bearer /, '')
stripBearerPrefix(v) ==
    IF startsWith(v, BearerPrefix) THEN SubSeq(v, Len(BearerPrefix) + 1, Len(v)) ELSE v

\* A pre hook may throw: "preMark" throws for the route '/c/1'.
RestPreThrows(h, request) == h = "preMark" /\ request["fullRoute"] = RouteC1

\* pre hooks: "preMark" records itself in the request and keeps its route;
\* "preReroute" returns the request with another route.
RestPre(h, request) ==
    CASE h = "preMark" -> Put(request, "marks", <<"preMark">>)
      [] h = "preReroute" -> Put(request, "fullRoute", Users42)

\* A post hook may throw: "postMark" reads response.session_start_limit.total,
\* a TypeError when the response has no session_start_limit.
RestPostThrows(h, request, response) ==
    h = "postMark" /\ ~Has(response, "session_start_limit")

\* What the default post hook synthesizes.
SynthesizedGatewayBot ==
    [ shards |-> DefaultShards,
      session_start_limit |->
          [ total |-> SessionTotal,
            remaining |-> SessionRemaining,
            reset_after |-> SessionResetAfter,
            max_concurrency |-> SessionMaxConcurrency ] ]

\* The post hooks with the default one returning the response as it came.
RestPostNoSynth(h, request, response) ==
    CASE h = "gatewayBotPost" -> response
      [] h = "postMark" -> Put(response, "postMark", request["fullRoute"])

\* The post hooks with the default one spreading the response first, the
\* synthesized fields over it.
RestPostSynthWins(h, request, response) ==
    CASE h = "gatewayBotPost" -> Spread(response, SynthesizedGatewayBot)
      [] h = "postMark" -> Put(response, "postMark", request["fullRoute"])

\* post hooks: the default one of the gateway-bot route, and one that
\* records itself in the response.
RestPost(h, request, response) ==
    CASE h = "gatewayBotPost" -> Spread(SynthesizedGatewayBot, response)
      [] h = "postMark" -> Put(response, "postMark", request["fullRoute"])

\* The default resolve hook reads headers['Authorization'] and calls replace
\* on it: a TypeError when the headers are a list, are missing, or hold no
\* Authorization entry.
RestResolveThrows(h, request, resolved) ==
    /\ h = "stripBearer"
    /\ \/ resolved.headers.form # "map"
       \/ HeaderAuthorization \notin DOMAIN resolved.headers.map

\* resolve hooks: the default one of '/users/{:id}/', and one that records
\* itself in the resolved form.
RestResolve(h, request, resolved) ==
    CASE h = "stripBearer" ->
            [resolved EXCEPT !.headers.map =
                Put(@, HeaderAuthorization, stripBearerPrefix(@[HeaderAuthorization]))]
      [] h = "resolveMark" -> [resolved EXCEPT !.marks = Append(@, "resolveMark")]


\* ---------------------------------------------------------------------
\* patch-user-agent: wrapResolveRequest
\* ---------------------------------------------------------------------
\* 0-based index of the first ':' at or after index from, or -1.
colonFrom(s, from) ==
    LET hits == {i \in from..(Len(s) - 1) : s[i + 1] = ":"}
    IN  IF hits = {} THEN -1 ELSE CHOOSE i \in hits : \A j \in hits : i <= j

\* header.split(':', 2): the text before the first ':', and the text between
\* the first ':' and the second (or the end); one piece when there is no ':'.
splitColon2(s) ==
    LET c1 == colonFrom(s, 0)
        c2 == IF c1 = -1 THEN -1 ELSE colonFrom(s, c1 + 1)
    IN  IF c1 = -1 THEN <<s>>
        ELSE << SubSeq(s, 1, c1),
                SubSeq(s, c1 + 2, IF c2 = -1 THEN Len(s) ELSE c2) >>

\* The WhiteSpace and LineTerminator code points of ECMAScript, which
\* String.prototype.trimStart removes: U+0009, U+000A, U+000B, U+000C,
\* U+000D, U+0020, U+00A0, U+1680, U+2000 to U+200A, U+2028, U+2029, U+202F,
\* U+205F, U+3000, U+FEFF. A character a string of this module cannot hold
\* is written as its code point.
WhiteSpace ==
    { " ", "\t", "\n", "\r", "\f", "", " ", " ", "﻿",
      "U+2000", "U+2001", "U+2002", "U+2003", "U+2004", "U+2005", "U+2006", "U+2007",
      "U+2008", "U+2009", "U+200A", "U+2028", "U+2029", "U+202F", "U+205F", "U+3000" }

\* String.prototype.trimStart
RECURSIVE trimStart(_)
trimStart(s) ==
    IF s # <<>> /\ Head(s) \in WhiteSpace THEN trimStart(Tail(s)) ELSE s

\* Object.fromEntries(headers.map(h => h.split(':', 2))
\*                           .map(([name, val]) => [name, val.trimStart()]))
RECURSIVE headersFromEntries(_)
headersFromEntries(items) ==
    IF items = <<>> THEN EmptyObject
    ELSE LET before == headersFromEntries(SubSeq(items, 1, Len(items) - 1))
             pieces == splitColon2(items[Len(items)])
         IN  Put(before, pieces[1], trimStart(pieces[2]))

\* val is undefined for a header without ':', and val.trimStart() throws.
wrapResolveRequestThrows(result) ==
    /\ result.headers.form = "list"
    /\ \E i \in 1..Len(result.headers.items) : Len(splitColon2(result.headers.items[i])) < 2

\* The wrapper's local variable `headers` after the conversion of a list.
normalizedHeaders(result) ==
    IF result.headers.form = "list"
    THEN MapHeaders(headersFromEntries(result.headers.items))
    ELSE result.headers

\* The part of the wrapper installed by wrapResolveRequest that runs after
\* the wrapped resolveRequest returned `result`: the value it returns. The
\* mapping built from a list is held in the local variable `headers` only;
\* a mapping that came as a mapping is the object inside `result`.
wrapResolveRequest(ua, result) ==
    LET headers1 == normalizedHeaders(result)
        headers2 == IF headers1.form = "map"
                    THEN MapHeaders(Put(headers1.map, HeaderUserAgent, ua))
                    ELSE headers1
    IN  IF result.headers.form = "map"
        THEN [result EXCEPT !.headers = headers2]
        ELSE result

\* ---------------------------------------------------------------------
\* patch-rest: the wrappers
\* ---------------------------------------------------------------------
RestCall(point, patch, hook, request, arg) ==
    [point |-> point, patch |-> patch, hook |-> hook, request |-> request, arg |-> arg]

IdleRequest ==
    [ pc       |-> "idle",       \* idle, underlying, resolving, hooked, sent, done,
                                 \* failed
      route    |-> <<>>,         \* the route the caller asked for
      seen     |-> <<>>,         \* the route map as the request wrapper read it
      patch    |-> NoPatch,      \* `patch` of the request wrapper
      options  |-> EmptyObject,  \* `options` of the request wrapper
      rseen    |-> <<>>,         \* the route map as the resolve wrapper read it
      rpatch   |-> NoPatch,      \* `patch` of the resolve wrapper
      hooked   |-> EmptyObject,  \* what the resolve wrapper of patch-rest returned
      resolved |-> EmptyObject,  \* what resolveRequest returned to the library
      response |-> EmptyObject,  \* what the original request answered
      normalized |-> [form |-> "none", map |-> EmptyObject, items |-> <<>>],
                                 \* the local `headers` of the User-Agent wrapper
      result   |-> EmptyObject,  \* what the caller received
      failedAt |-> "",           \* the hook point or wrapper that threw, if any
      error    |-> NoError,      \* the error the caller of that wrapper received
      calls    |-> <<>> ]        \* hooks and original functions called, in order

\* The wrapped REST.request up to its await, with the patch selected by the
\* route after the redirect was applied.
requestEnterSelectsAfterRedirect(m, route) ==
    LET first    == requestPatch(m, route)
        target   == IF PatchHas(first, "redirect") THEN RoutePatches[first]["redirect"] ELSE route
        patch    == IF requestPatch(m, target) # NoPatch THEN requestPatch(m, target) ELSE first
        options0 == [fullRoute |-> target, method |-> "GET"]
        options1 == IF PatchHas(patch, "pre")
                    THEN RestPre(RoutePatches[patch]["pre"], options0)
                    ELSE options0
        threw    == PatchHas(patch, "pre") /\ RestPreThrows(RoutePatches[patch]["pre"], options0)
    IN  [ patch   |-> patch,
          options |-> IF threw THEN options0 ELSE options1,
          threw   |-> threw,
          error   |-> IF threw THEN HookError(RoutePatches[patch]["pre"]) ELSE NoError,
          calls   |-> (IF PatchHas(patch, "pre")
                       THEN <<RestCall("pre", patch, RoutePatches[patch]["pre"], options0, EmptyObject)>>
                       ELSE <<>>)
                      \o (IF threw THEN <<>>
                          ELSE <<RestCall("underlying", NoPatch, "", options1, EmptyObject)>>) ]

\* The wrapped REST.request up to its await: select the patch, apply the
\* redirect, apply pre, call the original request. An error thrown by pre
\* leaves the wrapper at once: it rejects the promise the caller holds.
requestEnter(m, route) ==
    LET patch    == requestPatch(m, route)
        options0 == [fullRoute |-> route, method |-> "GET"]
        options1 == IF PatchHas(patch, "redirect")
                    THEN Put(options0, "fullRoute", RoutePatches[patch]["redirect"])
                    ELSE options0
        threw    == PatchHas(patch, "pre") /\ RestPreThrows(RoutePatches[patch]["pre"], options1)
        options2 == IF PatchHas(patch, "pre") /\ ~threw
                    THEN RestPre(RoutePatches[patch]["pre"], options1)
                    ELSE options1
    IN  [ patch   |-> patch,
          options |-> options2,
          threw   |-> threw,
          error   |-> IF threw THEN HookError(RoutePatches[patch]["pre"]) ELSE NoError,
          calls   |-> (IF PatchHas(patch, "pre")
                       THEN <<RestCall("pre", patch, RoutePatches[patch]["pre"], options1, EmptyObject)>>
                       ELSE <<>>)
                      \o (IF threw THEN <<>>
                          ELSE <<RestCall("underlying", NoPatch, "", options2, EmptyObject)>>) ]

\* The wrapper after its await with the value returned by post dropped.
requestLeaveDropsPostResult(req, response) ==
    IF PatchHas(req.patch, "post")
    THEN LET h == RoutePatches[req.patch]["post"]
         IN  [ threw  |-> RestPostThrows(h, req.options, response),
               error  |-> IF RestPostThrows(h, req.options, response) THEN HookError(h) ELSE NoError,
               result |-> response,
               calls  |-> <<RestCall("post", req.patch, h, req.options, response)>> ]
    ELSE [ threw |-> FALSE, error |-> NoError, result |-> response, calls |-> <<>> ]

\* The wrapper after its await taking post from the patch that the resolve
\* wrapper selected for this request.
requestLeavePostOfResolvePatch(req, response) ==
    IF PatchHas(req.rpatch, "post")
    THEN LET h == RoutePatches[req.rpatch]["post"]
         IN  [ threw  |-> RestPostThrows(h, req.options, response),
               error  |-> IF RestPostThrows(h, req.options, response) THEN HookError(h) ELSE NoError,
               result |-> IF RestPostThrows(h, req.options, response) THEN response
                          ELSE RestPost(h, req.options, response),
               calls  |-> <<RestCall("post", req.rpatch, h, req.options, response)>> ]
    ELSE [ threw |-> FALSE, error |-> NoError, result |-> response, calls |-> <<>> ]

\* The wrapped REST.request after its await with the patch kept in a
\* variable all calls share: the patch of another request in flight, if
\* there is one.
requestLeaveSharedPatch(req, response) ==
    LET others == {x \in DOMAIN reqs : reqs[x] # req /\ reqs[x].pc \in {"underlying", "resolving", "hooked", "sent"}}
        patch  == IF others = {} THEN req.patch ELSE reqs[CHOOSE x \in others : TRUE].patch
    IN  IF PatchHas(patch, "post")
        THEN LET h == RoutePatches[patch]["post"]
             IN  [ threw  |-> RestPostThrows(h, req.options, response),
                   error  |-> IF RestPostThrows(h, req.options, response) THEN HookError(h) ELSE NoError,
                   result |-> IF RestPostThrows(h, req.options, response) THEN response
                              ELSE RestPost(h, req.options, response),
                   calls  |-> <<RestCall("post", patch, h, req.options, response)>> ]
        ELSE [ threw |-> FALSE, error |-> NoError, result |-> response, calls |-> <<>> ]

\* The wrapped REST.request after its await with the patch looked up again,
\* in the route map as it is when the original request returns.
requestLeaveLooksUpAgain(req, response) ==
    LET patch == requestPatch(routes, req.route)
    IN  IF PatchHas(patch, "post")
        THEN LET h == RoutePatches[patch]["post"]
             IN  [ threw  |-> RestPostThrows(h, req.options, response),
                   error  |-> IF RestPostThrows(h, req.options, response) THEN HookError(h) ELSE NoError,
                   result |-> IF RestPostThrows(h, req.options, response) THEN response
                              ELSE RestPost(h, req.options, response),
                   calls  |-> <<RestCall("post", patch, h, req.options, response)>> ]
        ELSE [ threw |-> FALSE, error |-> NoError, result |-> response, calls |-> <<>> ]

\* The wrapped REST.request after its await: apply post to the response.
\* An error thrown by post rejects the promise the caller holds.
requestLeave(req, response) ==
    IF PatchHas(req.patch, "post")
    THEN LET h == RoutePatches[req.patch]["post"]
         IN  [ threw  |-> RestPostThrows(h, req.options, response),
               error  |-> IF RestPostThrows(h, req.options, response) THEN HookError(h) ELSE NoError,
               result |-> IF RestPostThrows(h, req.options, response) THEN response
                          ELSE RestPost(h, req.options, response),
               calls  |-> <<RestCall("post", req.patch, h, req.options, response)>> ]
    ELSE [ threw |-> FALSE, error |-> NoError, result |-> response, calls |-> <<>> ]

\* The wrapped resolveRequest up to its await, had it selected its patch by
\* the route the caller of request asked for.
resolveEnterByRequestedRoute(m, req) == resolvePatch(m, req.route)

\* The wrapped resolveRequest of patch-rest up to its await: the patch is
\* selected by the fullRoute of the options resolveRequest is called with,
\* those the wrapped request passed to the original request.
resolveEnter(m, req) == resolvePatch(m, req.options["fullRoute"])

\* The wrapped resolveRequest after its await with the default hook of
\* '/users/{:id}/' applied whatever patch the route selected.
resolveLeaveAlwaysStrips(req, resolved) ==
    LET h == "stripBearer"
    IN  [ threw  |-> RestResolveThrows(h, req.options, resolved),
          error  |-> IF RestResolveThrows(h, req.options, resolved) THEN HookError(h) ELSE NoError,
          result |-> IF RestResolveThrows(h, req.options, resolved) THEN resolved
                     ELSE RestResolve(h, req.options, resolved),
          calls  |-> <<RestCall("resolve", req.rpatch, h, req.options, resolved)>> ]

\* The wrapped resolveRequest after its await, had it caught what the hook
\* throws and passed the resolved request on as it was.
resolveLeavePassesThroughOnError(req, resolved) ==
    IF PatchHas(req.rpatch, "resolve")
    THEN LET h == RoutePatches[req.rpatch]["resolve"]
         IN  [ threw  |-> FALSE,
               error  |-> NoError,
               result |-> IF RestResolveThrows(h, req.options, resolved) THEN resolved
                          ELSE RestResolve(h, req.options, resolved),
               calls  |-> <<RestCall("resolve", req.rpatch, h, req.options, resolved)>> ]
    ELSE [ threw |-> FALSE, error |-> NoError, result |-> resolved, calls |-> <<>> ]

\* The wrapped resolveRequest of patch-rest after its await: apply resolve.
resolveLeave(req, resolved) ==
    IF PatchHas(req.rpatch, "resolve")
    THEN LET h == RoutePatches[req.rpatch]["resolve"]
         IN  [ threw  |-> RestResolveThrows(h, req.options, resolved),
               error  |-> IF RestResolveThrows(h, req.options, resolved) THEN HookError(h) ELSE NoError,
               result |-> IF RestResolveThrows(h, req.options, resolved) THEN resolved
                          ELSE RestResolve(h, req.options, resolved),
               calls  |-> <<RestCall("resolve", req.rpatch, h, req.options, resolved)>> ]
    ELSE [ threw |-> FALSE, error |-> NoError, result |-> resolved, calls |-> <<>> ]


\* The wrapped request whose await of the original request rejected, had the
\* hook been placed in a finally block: post runs on an empty response.
requestLeaveRejectedRunsPost(req, err) ==
    IF PatchHas(req.patch, "post")
    THEN [ threw |-> TRUE, error |-> err,
           calls |-> <<RestCall("post", req.patch, RoutePatches[req.patch]["post"],
                                req.options, EmptyObject)>> ]
    ELSE [ threw |-> TRUE, error |-> err, calls |-> <<>> ]

\* The wrapped request of patch-rest when its await of the original request
\* rejects: the async function rejects with the same error at the await,
\* the statements after it do not run.
requestLeaveRejected(req, err) ==
    [ threw |-> TRUE, error |-> err, calls |-> <<>> ]

\* The wrapped resolveRequest of patch-rest when its await of the original
\* resolveRequest rejects: likewise.
resolveLeaveRejected(req, err) ==
    [ threw |-> TRUE, error |-> err, calls |-> <<>> ]

\* ---------------------------------------------------------------------
\* REST actions
\* ---------------------------------------------------------------------
\* The application calls client.rest.request for a route: the wrapper runs
\* up to its await of the original request.
RequestStart(r, requestRoutes) ==
    \E route \in requestRoutes :
        /\ reqs[r].pc = "idle"
        /\ LET e == requestEnter(routes, route)
           IN  reqs' = [reqs EXCEPT ![r] =
                   [IdleRequest EXCEPT !.pc = IF e.threw THEN "failed" ELSE "underlying",
                                       !.failedAt = IF e.threw THEN "pre" ELSE "",
                                       !.error = e.error,
                                       !.route = route,
                                       !.seen = routes, !.patch = e.patch,
                                       !.options = e.options, !.calls = e.calls]]
        /\ UNCHANGED <<routes, writes, matchVars, userAgent, gatewayVars, installVars, moduleVars>>

\* The original request, run by the library, calls resolveRequest with the
\* request it was given: the wrapper of patch-user-agent calls the wrapper of
\* patch-rest, which selects its patch and awaits the original resolveRequest.
ResolveStart(r) ==
    /\ reqs[r].pc = "underlying"
    /\ reqs' = [reqs EXCEPT ![r].pc = "resolving",
                            ![r].rseen = routes,
                            ![r].rpatch = resolveEnter(routes, reqs[r])]
    /\ UNCHANGED <<routes, writes, matchVars, userAgent, gatewayVars, installVars, moduleVars>>

\* The original resolveRequest returns the wire form: the wrapper of
\* patch-rest resumes, applies the resolve hook and returns. An error thrown
\* by the hook rejects the request.
ResolveReturn(r, resolvedHeaders) ==
    \E headers \in resolvedHeaders :
        /\ reqs[r].pc = "resolving"
        /\ LET resolved == [url |-> reqs[r].options["fullRoute"], headers |-> headers, marks |-> <<>>]
               l        == resolveLeave(reqs[r], resolved)
               calls    == reqs[r].calls
                           \o <<RestCall("originalResolve", NoPatch, "", reqs[r].options, resolved)>>
                           \o l.calls
           IN  IF l.threw
               THEN reqs' = [reqs EXCEPT ![r].pc = "failed", ![r].calls = calls,
                                         ![r].failedAt = "resolve", ![r].error = l.error]
               ELSE reqs' = [reqs EXCEPT ![r].pc = "hooked", ![r].calls = calls,
                                         ![r].hooked = l.result]
        /\ UNCHANGED <<routes, writes, matchVars, userAgent, gatewayVars, installVars, moduleVars>>

\* The wrapper of patch-user-agent, which awaited the wrapper of patch-rest,
\* resumes in a later turn: it reads client.patches.userAgent.value as it is
\* now and sets the User-Agent header. An error it throws rejects the
\* request.
UserAgentReturn(r) ==
    /\ reqs[r].pc = "hooked"
    /\ IF wrapResolveRequestThrows(reqs[r].hooked)
       THEN reqs' = [reqs EXCEPT ![r].pc = "failed",
                                 ![r].failedAt = "wrapResolveRequest",
                                 ![r].error = HookError("wrapResolveRequest")]
       ELSE reqs' = [reqs EXCEPT ![r].pc = "sent",
                                 ![r].normalized = normalizedHeaders(reqs[r].hooked),
                                 ![r].resolved = wrapResolveRequest(userAgent, reqs[r].hooked)]
    /\ UNCHANGED <<routes, writes, matchVars, userAgent, gatewayVars, installVars, moduleVars>>

\* The original request answers: the wrapper applies post and returns.
UnderlyingReturn(r, responses) ==
    \E response \in responses :
        /\ reqs[r].pc = "sent"
        /\ LET l == requestLeave(reqs[r], response)
           IN  reqs' = [reqs EXCEPT ![r].pc = IF l.threw THEN "failed" ELSE "done",
                                    ![r].failedAt = IF l.threw THEN "post" ELSE "",
                                    ![r].error = l.error,
                                    ![r].response = response,
                                    ![r].result = IF l.threw THEN EmptyObject ELSE l.result,
                                    ![r].calls = reqs[r].calls \o l.calls]
        /\ UNCHANGED <<routes, writes, matchVars, userAgent, gatewayVars, installVars, moduleVars>>

\* The errors the library's own request and resolveRequest reject with: an
\* error answer of the API, or the abort of the request's signal.
UnderlyingErrors == {<<"DiscordAPIError", "underlying">>, <<"AbortError", "underlying">>}

\* The original request rejects, before or after it resolved the request.
UnderlyingFails(r, errors) ==
    \E err \in errors :
        /\ reqs[r].pc \in {"underlying", "sent"}
        /\ LET l == requestLeaveRejected(reqs[r], err)
           IN  reqs' = [reqs EXCEPT ![r].pc = "failed",
                                    ![r].failedAt = "underlying",
                                    ![r].error = l.error,
                                    ![r].calls = reqs[r].calls \o l.calls]
        /\ UNCHANGED <<routes, writes, matchVars, userAgent, gatewayVars, installVars, moduleVars>>

\* The original resolveRequest rejects: the wrapper rejects, and with it the
\* original request that called it and the wrapped request awaiting that.
ResolveFails(r, errors) ==
    \E err \in errors :
        /\ reqs[r].pc = "resolving"
        /\ LET l == resolveLeaveRejected(reqs[r], err)
               u == requestLeaveRejected(reqs[r], l.error)
           IN  reqs' = [reqs EXCEPT ![r].pc = "failed",
                                    ![r].failedAt = "originalResolve",
                                    ![r].error = u.error,
                                    ![r].calls = reqs[r].calls \o l.calls \o u.calls]
        /\ UNCHANGED <<routes, writes, matchVars, userAgent, gatewayVars, installVars, moduleVars>>

\* Reconfiguration at run time: client.patches.rest.routes.set(key, patch)
RouteSet(routeWrites) ==
    \E w \in routeWrites :
        /\ writes < MaxRouteWrites
        /\ routes' = routesSet(routes, w[1], w[2])
        /\ writes' = writes + 1
        /\ UNCHANGED <<reqs, matchVars, userAgent, gatewayVars, installVars, moduleVars>>

\* client.patches.rest.routes.delete(key)
RouteDelete(keys) ==
    \E i \in 1..Len(routes) :
        /\ routes[i].key \in keys
        /\ writes < MaxRouteWrites
        /\ routes' = routesDelete(routes, routes[i].key)
        /\ writes' = writes + 1
        /\ UNCHANGED <<reqs, matchVars, userAgent, gatewayVars, installVars, moduleVars>>

\* ---------------------------------------------------------------------
\* Installation (userbot, patchClient) and the websocket managers
\* (patchCreateShardManager, patchCreateShard)
\* ---------------------------------------------------------------------
\* The hook points the patches depend on.
HookPoints == {"_ws", "updateShardCount", "shards", "emit", "send", "request", "resolveRequest"}

\* The websocket managers the client may be given.
ManagerIds == {"m1", "m2"}

\* A manager as its library constructs it: nothing wrapped, no call of
\* updateShardCount in flight, no shard.
\*   uscWraps: wrappers around updateShardCount, each with a tag of its own;
\*   emitWraps: wrappers around emit;
\*   inflight: the calls of updateShardCount that have not returned, each
\*     with the number of wrappers it entered through (layers) and the
\*     wrapper that resumes next (tag, 1 for the innermost);
\*   shards: strategy.shards, each shard with the tags it carries and the
\*     wrappers around its send.
FreshManager == [uscWraps |-> 0, emitWraps |-> 0, inflight |-> <<>>, shards |-> <<>>]
FreshShard == [tags |-> {}, sendWraps |-> 0]

\* The state userbot(client) leaves when every hook point is present:
\* discord.js constructs its WebSocketManager with _ws = null and assigns a
\* manager when the client connects.
InitInstalled ==
    /\ hooks = HookPoints
    /\ install = "ok"
    /\ late = ""
    /\ ws = Null
    /\ mgrs = [m \in ManagerIds |-> FreshManager]
    /\ wsAssigns = 0

\* A client before userbot(client), with any of the hook points missing.
InitInstall ==
    /\ hooks \in SUBSET HookPoints
    /\ install = "none"
    /\ late = ""
    /\ ws = Null
    /\ mgrs = [m \in ManagerIds |-> FreshManager]
    /\ wsAssigns = 0

\* userbot(client): the patch functions in the order of DEFAULT_PATCHES.
\* BearerToken writes an option; Gateway calls patchCreateShardManager, which
\* throws when _ws is undefined; Rest and UserAgent read request and
\* resolveRequest into `original` and install their wrappers without a test.
patchCreateShardManagerThrows(h) == "_ws" \notin h
userbot(h) == IF patchCreateShardManagerThrows(h) THEN "threw" ELSE "ok"

\* patchCreateShard(client, ws): one more wrapper around ws.updateShardCount;
\* throws when the manager has no updateShardCount.
patchCreateShardThrows(h) == "updateShardCount" \notin h
patchCreateShard(mgr) == [mgr EXCEPT !.uscWraps = @ + 1]

\* patchShardInbound(client, ws): one more wrapper around ws.emit; throws
\* when the manager has no emit.
patchShardInboundThrows(h) == "emit" \notin h
patchShardInboundInstall(mgr) == [mgr EXCEPT !.emitWraps = @ + 1]

\* The setter of _ws installed by patchCreateShardManager, after `ws = v`:
\* patchCreateShard, then patchShardInbound; the first that throws ends it.
setWs(mgr, h) ==
    IF patchCreateShardThrows(h) THEN [mgr |-> mgr, threw |-> TRUE]
    ELSE IF patchShardInboundThrows(h) THEN [mgr |-> patchCreateShard(mgr), threw |-> TRUE]
    ELSE [mgr |-> patchShardInboundInstall(patchCreateShard(mgr)), threw |-> FALSE]

\* patchShardOutbound(client, ws, shard): one more wrapper around shard.send;
\* throws when the shard has no send.
patchShardOutboundThrows(h) == "send" \notin h

\* The loop of one updateShardCount wrapper, whose tag is `tag`, over the
\* shards from index i on: a shard that carries the tag is skipped, another
\* one is tagged and then patched. Returns the shards and whether
\* patchShardOutbound threw (which ends the loop, the shard already tagged).
RECURSIVE patchShardsFrom(_, _, _, _)
patchShardsFrom(shards, tag, i, h) ==
    IF i > Len(shards) THEN [shards |-> shards, threw |-> FALSE]
    ELSE IF tag \in shards[i].tags THEN patchShardsFrom(shards, tag, i + 1, h)
    ELSE IF patchShardOutboundThrows(h)
    THEN [shards |-> [shards EXCEPT ![i].tags = @ \cup {tag}], threw |-> TRUE]
    ELSE patchShardsFrom([shards EXCEPT ![i].tags = @ \cup {tag}, ![i].sendWraps = @ + 1],
                         tag, i + 1, h)

\* `strategy?.shards === undefined`
strategyShardsMissing(h) == "shards" \notin h

\* The continuation of one updateShardCount wrapper, whose tag is `tag`,
\* after `await Reflect.apply(original, this, args)`: it throws when the
\* manager's strategy has no shards, otherwise it runs its loop.
updateShardCountReturn(shards, tag, h) ==
    IF strategyShardsMissing(h) THEN [shards |-> shards, threw |-> TRUE]
    ELSE patchShardsFrom(shards, tag, 1, h)

\* A sequence without its i-th element.
WithoutIndex(seq, i) == SubSeq(seq, 1, i - 1) \o SubSeq(seq, i + 1, Len(seq))

\* ---------------------------------------------------------------------
\* Installation and websocket manager actions
\* ---------------------------------------------------------------------
OthersUnchanged == UNCHANGED <<matchVars, userAgent, gatewayVars, restVars, moduleVars>>

\* The application calls userbot(client).
Userbot ==
    /\ install = "none"
    /\ install' = userbot(hooks)
    /\ UNCHANGED <<hooks, late, ws, mgrs, wsAssigns>>
    /\ OthersUnchanged

\* discord.js assigns a manager to client.ws._ws: a new one, or one it held
\* before. The setter stores it and patches it.
AssignWs ==
    \E m \in ManagerIds :
        /\ install = "ok"
        /\ wsAssigns < MaxWsAssigns
        /\ LET r == setWs(mgrs[m], hooks)
           IN  /\ mgrs' = [mgrs EXCEPT ![m] = r.mgr]
               /\ late' = IF r.threw THEN "assign" ELSE late
        /\ ws' = m
        /\ wsAssigns' = wsAssigns + 1
        /\ UNCHANGED <<hooks, install>>
        /\ OthersUnchanged

\* updateShardCount is called on the current manager: the wrappers pass the
\* call to the original, which discards the manager's shards and spawns n
\* new ones, and await it. (A manager without updateShardCount cannot be
\* called; one the setter failed to wrap has no wrapper to resume.)
UpdateShardCountCall ==
    \E n \in 1..MaxShards :
        /\ install = "ok"
        /\ ws # Null
        /\ ~patchCreateShardThrows(hooks)
        /\ Len(mgrs[ws].inflight) < MaxInFlight
        /\ mgrs' = [mgrs EXCEPT ![ws].shards = [i \in 1..n |-> FreshShard],
                                ![ws].inflight =
                                    Append(@, [layers |-> mgrs[ws].uscWraps, tag |-> 1])]
        /\ UNCHANGED <<hooks, install, late, ws, wsAssigns>>
        /\ OthersUnchanged

\* One wrapper of a call of updateShardCount in flight resumes, the
\* innermost first: each wrapper is an async function that resumes in a
\* microtask of its own once the one inside it has returned, and the calls
\* in flight settle in any order. It patches the shards the manager has
\* now; when it throws, the wrappers around it reject without running.
UpdateShardCountReturn ==
    \E m \in ManagerIds :
        \E i \in 1..Len(mgrs[m].inflight) :
            LET call == mgrs[m].inflight[i]
                r    == updateShardCountReturn(mgrs[m].shards, call.tag, hooks)
            IN  /\ mgrs' = [mgrs EXCEPT
                               ![m].shards = r.shards,
                               ![m].inflight =
                                   IF r.threw \/ call.tag = call.layers
                                   THEN WithoutIndex(@, i)
                                   ELSE [@ EXCEPT ![i].tag = call.tag + 1]]
                /\ late' = IF r.threw THEN "updateShardCount" ELSE late
                /\ UNCHANGED <<hooks, install, ws, wsAssigns>>
                /\ OthersUnchanged

\* The original updateShardCount of a call in flight rejects: the innermost
\* wrapper rejects at its await without reading strategy.shards, and the
\* wrappers around it with it. The library leaves the shards the manager
\* has, or none.
UpdateShardCountRejects ==
    \E m \in ManagerIds :
        \E i \in 1..Len(mgrs[m].inflight) :
            \E left \in {mgrs[m].shards, <<>>} :
                /\ mgrs[m].inflight[i].tag = 1
                /\ mgrs' = [mgrs EXCEPT ![m].shards = left,
                                        ![m].inflight = WithoutIndex(@, i)]
                /\ UNCHANGED <<hooks, install, late, ws, wsAssigns>>
                /\ OthersUnchanged

\* The application makes a REST request on the patched client: the wrappers
\* call `original`, which is undefined when the hook point was missing.
RestUse ==
    /\ install = "ok"
    /\ \/ "request" \notin hooks /\ late' = "request"
       \/ "request" \in hooks /\ "resolveRequest" \notin hooks /\ late' = "resolveRequest"
    /\ UNCHANGED <<hooks, install, ws, mgrs, wsAssigns>>
    /\ OthersUnchanged

NextInstall ==
    \/ Userbot
    \/ AssignWs
    \/ UpdateShardCountCall
    \/ UpdateShardCountReturn
    \/ UpdateShardCountRejects
    \/ RestUse

\* ---------------------------------------------------------------------
\* Bot, Server, EventMapper and Module: listeners, commands and cleanup
\* ---------------------------------------------------------------------
\* The registrations made over all modules are bounded.
MaxRegistrations == 3

ModuleIds == {"verifier", "pins"}
ServerEventNames == {"userJoined", "userInteraction"}
BotEventNames == {"userJoined", "userInteraction"}
CommandNames == {"verify", "ping"}

\* EventMapper.MAP: the bot event a server event is mapped onto, and the
\* forwarding listener of the server event (bound once, in the constructor).
MappedBotEvent(event) == event
ForwardingListener(event) == <<"EventMapper", event>>

\* Server.onInteractionHandler
OnInteractionHandler == <<"Server", "onInteractionHandler">>

\* The k-th handler a module bound: guard(handler).bind(this) is a new
\* function at each registration.
BoundHandler(m, k) == <<m, k>>

NoListeners == [e \in BotEventNames |-> <<>>]

\* The wrapper events.EventEmitter.once puts on the list in place of the
\* handler; its listener property is the handler.
OnceWrapper(h) == <<"once">> \o h
IsOnceWrapper(x) == Len(x) = 3 /\ x[1] = "once"

\* events.EventEmitter: on appends the listener, also when it is already
\* there; once appends a wrapper of it; off removes the most recently added
\* entry that is the listener or a once wrapper of it. emit calls the
\* listeners in order, a once wrapper taking itself off the list before it
\* calls its handler, and stops at the first listener that throws: `stop` is
\* the position of that listener, 0 when every listener returns.
emitterOn(listeners, event, h) == [listeners EXCEPT ![event] = Append(@, h)]
emitterOnce(listeners, event, h) == [listeners EXCEPT ![event] = Append(@, OnceWrapper(h))]
emitterEmit(listeners, event, stop) ==
    LET l      == listeners[event]
        called == IF stop = 0 THEN Len(l) ELSE stop
        kept   == {i \in 1..Len(l) : i > called \/ ~IsOnceWrapper(l[i])}
        RECURSIVE pick(_)
        pick(i) == IF i > Len(l) THEN <<>>
                   ELSE (IF i \in kept THEN <<l[i]>> ELSE <<>>) \o pick(i + 1)
    IN  [listeners EXCEPT ![event] = pick(1)]

\* The position of the first listener that throws, given the positions of
\* the listeners that throw: 0 when none does.
FirstThrowing(hits) ==
    IF hits = {} THEN 0 ELSE CHOOSE i \in hits : \A j \in hits : i <= j
emitterOff(listeners, event, h) ==
    LET l    == listeners[event]
        hits == {i \in 1..Len(l) : l[i] = h \/ (IsOnceWrapper(l[i]) /\ Tail(l[i]) = h)}
    IN  IF hits = {} THEN listeners
        ELSE LET last == CHOOSE i \in hits : \A j \in hits : j <= i
             IN  [listeners EXCEPT ![event] =
                     SubSeq(l, 1, last - 1) \o SubSeq(l, last + 1, Len(l))]
listenerCount(listeners, event) == Len(listeners[event])

\* The bot and the server as one value: st.bot is Bot.emitter, st.server is
\* EventMapper.emitter, st.commands is Server.loadedCommands.
botOn(st, event, h) == [st EXCEPT !.bot = emitterOn(@, event, h)]
botOff(st, event, h) == [st EXCEPT !.bot = emitterOff(@, event, h)]

attachToBotEmitter(st, event) == botOn(st, MappedBotEvent(event), ForwardingListener(event))
detachFromBotEmitter(st, event) == botOff(st, MappedBotEvent(event), ForwardingListener(event))

\* EventMapper.on / off, which Server.on / off call.
serverOn(st, event, h) ==
    LET listeners == listenerCount(st.server, event)
        st1       == [st EXCEPT !.server = emitterOn(@, event, h)]
    IN  IF listeners = 0 THEN attachToBotEmitter(st1, event) ELSE st1
serverOff(st, event, h) ==
    LET listeners == listenerCount(st.server, event)
        st1       == [st EXCEPT !.server = emitterOff(@, event, h)]
    IN  IF listeners = 1 THEN detachFromBotEmitter(st1, event) ELSE st1

\* Server.registerCommand / unregisterCommand
serverRegisterCommand(st, name, handler) ==
    LET st1 == [st EXCEPT !.commands = Put(@, name, handler)]
    IN  IF Cardinality(DOMAIN st1.commands) = 1
        THEN serverOn(st1, "userInteraction", OnInteractionHandler)
        ELSE st1
serverUnregisterCommand(st, name) ==
    LET st1 == [st EXCEPT !.commands = Del(@, name)]
    IN  IF Cardinality(DOMAIN st1.commands) = 0
        THEN serverOff(st1, "userInteraction", OnInteractionHandler)
        ELSE st1

\* The functions a module pushes on unregisterFunctions, as data: what each
\* does when called. "custom" is a function handed to Module.register by
\* the module itself, which may throw.
BotCleanup(event, h) == [kind |-> "bot", key |-> event, handler |-> h, throws |-> FALSE]
ServerCleanup(event, h) == [kind |-> "server", key |-> event, handler |-> h, throws |-> FALSE]
CommandCleanup(name) == [kind |-> "command", key |-> name, handler |-> <<>>, throws |-> FALSE]
CustomCleanup(throws) == [kind |-> "custom", key |-> "", handler |-> <<>>, throws |-> throws]

\* Calling a cleanup function with the listener kept on the server emitter.
runCleanupSkipsServer(st, c) ==
    CASE c.kind = "bot" -> botOff(st, c.key, c.handler)
      [] c.kind = "server" -> st
      [] c.kind = "command" -> serverUnregisterCommand(st, c.key)
      [] c.kind = "custom" -> st

\* Calling a cleanup function that returns.
runCleanup(st, c) ==
    CASE c.kind = "bot" -> botOff(st, c.key, c.handler)
      [] c.kind = "server" -> serverOff(st, c.key, c.handler)
      [] c.kind = "command" -> serverUnregisterCommand(st, c.key)
      [] c.kind = "custom" -> st

\* Module.unload calling the cleanup functions first registered first.
RECURSIVE unloadInRegistrationOrder(_, _, _)
unloadInRegistrationOrder(st, fns, called) ==
    IF Len(fns) = 0 THEN [st |-> st, fns |-> fns, called |-> called, threw |-> FALSE]
    ELSE LET cleanupFunction == Head(fns)
             rest            == Tail(fns)
         IN  IF cleanupFunction.throws
             THEN [st |-> st, fns |-> rest, called |-> Append(called, cleanupFunction),
                   threw |-> TRUE]
             ELSE unloadInRegistrationOrder(runCleanup(st, cleanupFunction), rest,
                                            Append(called, cleanupFunction))

\* Module.unload: pop and call until the list is empty or a function
\* throws. Returns the bot and server, the list left, the functions called
\* in order, and whether unload rejected.
RECURSIVE unload(_, _, _)
unload(st, fns, called) ==
    IF Len(fns) = 0 THEN [st |-> st, fns |-> fns, called |-> called, threw |-> FALSE]
    ELSE LET cleanupFunction == fns[Len(fns)]
             rest            == SubSeq(fns, 1, Len(fns) - 1)
         IN  IF cleanupFunction.throws
             THEN [st |-> st, fns |-> rest, called |-> Append(called, cleanupFunction),
                   threw |-> TRUE]
             ELSE unload(runCleanup(st, cleanupFunction), rest, Append(called, cleanupFunction))

\* A Module instance as constructed. An instance registers while it is
\* loaded; Server.unloadModule drops it from loadedModules before it calls
\* unload, so an instance is unloaded once.
FreshInstance == [unregisterFunctions |-> <<>>, bound |-> 0, unloaded |-> "", called |-> <<>>]

\* The calls of Server.loadModule; each constructs an instance of its own.
LoadIds == {"l1", "l2"}

\* A call of loadModule not made yet.
\*   pc: idle, config (awaiting getYamlConfiguration), refresh (awaiting
\*     refreshCommands), done, failed;
\*   unloaded: how Server.unloadModule went for the instance: "" (not
\*     called), "threw", "refresh" (awaiting refreshCommands), "ok",
\*     "refreshFailed".
IdleLoad ==
    [ pc |-> "idle", module |-> "", config |-> Null, error |-> NoError,
      unregisterFunctions |-> <<>>, registered |-> <<>>,
      unloaded |-> "", called |-> <<>>, unloadError |-> NoError ]

\* The events of Manager.emitter that destroyServerInstance emits.
ManagerEventNames == {"error", "leak"}

InitModules ==
    /\ botEmitter = NoListeners
    /\ serverEmitter = NoListeners
    /\ loadedCommands = EmptyObject
    /\ instances = [m \in ModuleIds |-> FreshInstance]
    /\ loadedModules = <<>>
    /\ loads = [l \in LoadIds |-> IdleLoad]
    /\ teardown = "none"
    /\ awaited = {}
    /\ pendingCatch = <<>>
    /\ managerListeners = [event \in ManagerEventNames |-> "none"]

TheServer == [bot |-> botEmitter, server |-> serverEmitter, commands |-> loadedCommands]
SetServer(st) ==
    /\ botEmitter' = st.bot
    /\ serverEmitter' = st.server
    /\ loadedCommands' = st.commands

ModuleOthersUnchanged ==
    UNCHANGED <<matchVars, userAgent, gatewayVars, restVars, installVars, lifeVars,
                joinVars, findVars>>

\* Module.register
register(inst, onUnload) ==
    [inst EXCEPT !.unregisterFunctions = Append(@, onUnload)]

\* The registrations made so far, over all modules.
RegistrationsMade ==
    Cardinality({ mk \in ModuleIds \X (1..MaxRegistrations) :
                    mk[2] <= instances[mk[1]].bound })

\* Module.registerBotEvent
RegisterBotEvent ==
    \E m \in ModuleIds, event \in BotEventNames :
        /\ instances[m].unloaded = ""
        /\ RegistrationsMade < MaxRegistrations
        /\ LET boundHandler == BoundHandler(m, instances[m].bound + 1)
           IN  /\ SetServer(botOn(TheServer, event, boundHandler))
               /\ instances' = [instances EXCEPT ![m] =
                     [register(@, BotCleanup(event, boundHandler)) EXCEPT !.bound = @ + 1]]
        /\ ModuleOthersUnchanged

\* Module.registerServerEvent
RegisterServerEvent ==
    \E m \in ModuleIds, event \in ServerEventNames :
        /\ instances[m].unloaded = ""
        /\ RegistrationsMade < MaxRegistrations
        /\ LET boundHandler == BoundHandler(m, instances[m].bound + 1)
           IN  /\ SetServer(serverOn(TheServer, event, boundHandler))
               /\ instances' = [instances EXCEPT ![m] =
                     [register(@, ServerCleanup(event, boundHandler)) EXCEPT !.bound = @ + 1]]
        /\ ModuleOthersUnchanged

\* Module.registerCommand
RegisterCommand ==
    \E m \in ModuleIds, name \in CommandNames :
        /\ instances[m].unloaded = ""
        /\ RegistrationsMade < MaxRegistrations
        /\ LET handler == BoundHandler(m, instances[m].bound + 1)
           IN  /\ SetServer(serverRegisterCommand(TheServer, name, handler))
               /\ instances' = [instances EXCEPT ![m] =
                     [register(@, CommandCleanup(name)) EXCEPT !.bound = @ + 1]]
        /\ ModuleOthersUnchanged

\* The module hands a cleanup function of its own to Module.register.
RegisterCustom ==
    \E m \in ModuleIds, throws \in BOOLEAN :
        /\ instances[m].unloaded = ""
        /\ RegistrationsMade < MaxRegistrations
        /\ instances' = [instances EXCEPT ![m] =
              [register(@, CustomCleanup(throws)) EXCEPT !.bound = @ + 1]]
        /\ UNCHANGED <<botEmitter, serverEmitter, loadedCommands>>
        /\ ModuleOthersUnchanged

\* Module.unload (no await inside: it runs in one turn).
Unload ==
    \E m \in ModuleIds :
        /\ instances[m].bound > 0
        /\ instances[m].unloaded = ""
        /\ LET u == unload(TheServer, instances[m].unregisterFunctions, <<>>)
           IN  /\ SetServer(u.st)
               /\ instances' = [instances EXCEPT ![m].unregisterFunctions = u.fns,
                                                 ![m].called = u.called,
                                                 ![m].unloaded = IF u.threw THEN "threw" ELSE "ok"]
        /\ ModuleOthersUnchanged

\* The server used directly: handlers the caller holds, whether or not it
\* registered them before.
MaxListeners == 3
ServerHandlers == {<<"caller", 1>>, <<"caller", 2>>}

\* The bot used directly: a handler the caller holds, on the list of an
\* event MaxBotListeners times at most.
MaxBotListeners == 1
BotHandlers == {<<"caller", 1>>}
CallerListeners(listeners, event) ==
    Cardinality({i \in 1..Len(listeners[event]) :
        \E h \in BotHandlers : listeners[event][i] \in {h, OnceWrapper(h)}})

\* Server.on(event, handler)
ServerOn ==
    \E event \in ServerEventNames, h \in ServerHandlers :
        /\ listenerCount(serverEmitter, event) < MaxListeners
        /\ SetServer(serverOn(TheServer, event, h))
        /\ UNCHANGED instances
        /\ ModuleOthersUnchanged

\* Server.off(event, handler)
ServerOff ==
    \E event \in ServerEventNames, h \in ServerHandlers :
        /\ SetServer(serverOff(TheServer, event, h))
        /\ UNCHANGED instances
        /\ ModuleOthersUnchanged

\* Server.registerCommand(command, handler)
ServerRegisterCommand ==
    \E name \in CommandNames, h \in ServerHandlers :
        /\ listenerCount(serverEmitter, "userInteraction") < MaxListeners
        /\ SetServer(serverRegisterCommand(TheServer, name, h))
        /\ UNCHANGED instances
        /\ ModuleOthersUnchanged

\* Server.unregisterCommand(command)
ServerUnregisterCommand ==
    \E name \in CommandNames :
        /\ SetServer(serverUnregisterCommand(TheServer, name))
        /\ UNCHANGED instances
        /\ ModuleOthersUnchanged

\* Bot.on(event, handler)
BotOn ==
    \E event \in BotEventNames, h \in BotHandlers :
        /\ CallerListeners(botEmitter, event) < MaxBotListeners
        /\ botEmitter' = emitterOn(botEmitter, event, h)
        /\ UNCHANGED <<serverEmitter, loadedCommands, instances>>
        /\ ModuleOthersUnchanged

\* Bot.once(event, handler)
BotOnce ==
    \E event \in BotEventNames, h \in BotHandlers :
        /\ CallerListeners(botEmitter, event) < MaxBotListeners
        /\ botEmitter' = emitterOnce(botEmitter, event, h)
        /\ UNCHANGED <<serverEmitter, loadedCommands, instances>>
        /\ ModuleOthersUnchanged

\* Bot.off(event, handler)
BotOff ==
    \E event \in BotEventNames, h \in BotHandlers :
        /\ botEmitter' = emitterOff(botEmitter, event, h)
        /\ UNCHANGED <<serverEmitter, loadedCommands, instances>>
        /\ ModuleOthersUnchanged

\* The handlers that throw when called: the second handler of the caller
\* and the second function a module bound (guard rethrows its error as a
\* ModuleError).
ThrowingHandlers == {<<"caller", 2>>} \cup {BoundHandler(m, 2) : m \in ModuleIds}
HandlerThrows(h) == h \in ThrowingHandlers

\* What the client emits: a member or an interaction of this guild or of
\* another one; an interaction is a chat input command with a name, or none.
NoCommand == "none"
Payloads ==
    [guild : {"this", "other"}, command : CommandNames \cup {NoCommand}]

\* Server.onInteractionHandler: the handler of the command is called, and
\* what it throws is not caught.
onInteractionHandlerThrows(st, payload) ==
    /\ payload.command # NoCommand
    /\ Has(st.commands, payload.command)
    /\ HandlerThrows(st.commands[payload.command])

\* A listener of the server emitter throws.
serverListenerThrows(st, x, payload) ==
    IF x = OnInteractionHandler THEN onInteractionHandlerThrows(st, payload)
    ELSE HandlerThrows(x)

\* The forwarding listener of EventMapper.MAP: for this guild it emits the
\* event on the server emitter, which throws what a listener throws.
forwardingListenerThrows(st, event, payload) ==
    /\ payload.guild = "this"
    /\ \E i \in 1..Len(st.server[event]) : serverListenerThrows(st, st.server[event][i], payload)

\* A listener of the bot emitter throws.
botListenerThrows(st, event, x, payload) ==
    LET h == IF IsOnceWrapper(x) THEN Tail(x) ELSE x
    IN  IF h = ForwardingListener(event) THEN forwardingListenerThrows(st, event, payload)
        ELSE HandlerThrows(h)

\* Bot.emitter.emit(event, ...)
botEmit(st, event, payload) ==
    LET l    == st.bot[event]
        hits == {i \in 1..Len(l) : botListenerThrows(st, event, l[i], payload)}
    IN  [st EXCEPT !.bot = emitterEmit(@, event, FirstThrowing(hits))]

\* The client emits GuildMemberAdd or InteractionCreate: the listener the
\* Bot constructor added emits the bot event.
BotEmit ==
    \E event \in BotEventNames, payload \in Payloads :
        /\ event = "userJoined" => payload.command = NoCommand
        /\ SetServer(botEmit(TheServer, event, payload))
        /\ UNCHANGED instances
        /\ ModuleOthersUnchanged

NextServer ==
    \/ ServerOn
    \/ ServerOff
    \/ ServerRegisterCommand
    \/ ServerUnregisterCommand
    \/ BotOn
    \/ BotOnce
    \/ BotOff
    \/ BotEmit

NextModule ==
    \/ RegisterBotEvent
    \/ RegisterServerEvent
    \/ RegisterCommand
    \/ RegisterCustom
    \/ Unload

\* ---------------------------------------------------------------------
\* Server.loadModule, Server.unloadModule, Manager.destroyServerInstance
\* ---------------------------------------------------------------------
\* new ModuleError(module, message, cause) and new Error(message)
ModuleError(module, message, cause) == <<"ModuleError", module, message, cause>>
Error(message) == <<"Error", message>>

\* Server.loadedModules, a Map: has, set of a new key, delete, values.
modulesHas(mods, id) == \E i \in 1..Len(mods) : mods[i].id = id
modulesSet(mods, id, l) == Append(mods, [id |-> id, load |-> l])
RECURSIVE modulesDelete(_, _)
modulesDelete(mods, id) ==
    IF mods = <<>> THEN <<>>
    ELSE IF Head(mods).id = id THEN modulesDelete(Tail(mods), id)
    ELSE <<Head(mods)>> \o modulesDelete(Tail(mods), id)

\* What initialize of a module does, in order. 'verifier' registers a
\* server listener and two commands; 'pins' stands for another module: a bot
\* listener, a cleanup function of its own that throws, and a command.
InitializeSteps(m) ==
    CASE m = "verifier" -> << [kind |-> "server", key |-> "userJoined"],
                              [kind |-> "command", key |-> "verify"],
                              [kind |-> "command", key |-> "unverify"] >>
      [] m = "pins"     -> << [kind |-> "bot", key |-> "userInteraction"],
                              [kind |-> "custom", key |-> ""],
                              [kind |-> "command", key |-> "ping"] >>
      [] OTHER          -> <<>>

\* One registration of instance l, its k-th: the Module.register* call on
\* the server and the cleanup function pushed.
registerStep(st, inst, l, k, step) ==
    CASE step.kind = "bot" ->
            [ st   |-> botOn(st, step.key, BoundHandler(l, k)),
              inst |-> register(inst, BotCleanup(step.key, BoundHandler(l, k))) ]
      [] step.kind = "server" ->
            [ st   |-> serverOn(st, step.key, BoundHandler(l, k)),
              inst |-> register(inst, ServerCleanup(step.key, BoundHandler(l, k))) ]
      [] step.kind = "command" ->
            [ st   |-> serverRegisterCommand(st, step.key, BoundHandler(l, k)),
              inst |-> register(inst, CommandCleanup(step.key)) ]
      [] step.kind = "custom" ->
            [ st |-> st, inst |-> register(inst, CustomCleanup(TRUE)) ]

\* instance.initialize(config), which makes the first `upto` of its
\* registrations and rejects when that is not all of them.
RECURSIVE initialize(_, _, _, _, _, _)
initialize(st, inst, l, steps, k, upto) ==
    IF k > upto THEN [st |-> st, inst |-> inst, threw |-> upto < Len(steps)]
    ELSE LET one == registerStep(st, inst, l, k, steps[k])
         IN  initialize(one.st, one.inst, l, steps, k + 1, upto)

\* The catch block of loadModule, had it undone the load: the instance is
\* taken out of loadedModules and unloaded.
loadModuleCatchRollsBack(mods, st, inst, m, cause) ==
    LET u == unload(st, inst.unregisterFunctions, <<>>)
    IN  [ mods  |-> modulesDelete(mods, m),
          st    |-> u.st,
          inst  |-> [inst EXCEPT !.unregisterFunctions = u.fns],
          error |-> ModuleError(m, "Failed to enable module.", cause) ]

\* The catch block of loadModule: the error is wrapped and thrown, nothing
\* else is touched.
loadModuleCatch(mods, st, inst, m, cause) ==
    [ mods  |-> mods,
      st    |-> st,
      inst  |-> inst,
      error |-> ModuleError(m, "Failed to enable module.", cause) ]

LifeOthersUnchanged ==
    UNCHANGED <<matchVars, userAgent, gatewayVars, restVars, installVars, instances,
                joinVars, findVars>>

\* The calls are named in the order they are made.
LoadOrder == <<"l1", "l2">>
NextLoad(l) ==
    \E i \in 1..Len(LoadOrder) :
        /\ LoadOrder[i] = l
        /\ loads[l].pc = "idle"
        /\ \A j \in 1..(i - 1) : loads[LoadOrder[j]].pc # "idle"

\* Server.loadModule(module, ...) up to its first await: the instance is
\* constructed; an id that is loaded throws, otherwise the instance is put
\* in loadedModules and the configuration is fetched.
LoadModule ==
    \E l \in LoadIds, m \in ModuleIds :
        /\ teardown = "none"
        /\ NextLoad(l)
        /\ IF modulesHas(loadedModules, m)
           THEN LET c == loadModuleCatch(loadedModules, TheServer, loads[l], m,
                                         Error("Module already loaded."))
                IN  /\ loads' = [loads EXCEPT ![l] = [c.inst EXCEPT !.pc = "failed", !.module = m,
                                                                     !.error = c.error]]
                    /\ loadedModules' = c.mods
                    /\ SetServer(c.st)
           ELSE /\ loads' = [loads EXCEPT ![l].pc = "config", ![l].module = m]
                /\ loadedModules' = modulesSet(loadedModules, m, l)
                /\ SetServer(TheServer)
        /\ UNCHANGED <<teardown, awaited, pendingCatch, managerListeners>>
        /\ LifeOthersUnchanged

\* What initialize(config) can leave in the config field of an instance of m:
\* Verifier.initialize stores its argument, the configuration found or
\* null; Module has no such field.
Configurations(m) == IF m = "verifier" THEN {Null, "config"} ELSE {Null}

\* getYamlConfiguration settles, with a configuration or with a rejection
\* (config stays null); initialize runs, then refreshCommands is called.
ConfigSettles ==
    \E l \in LoadIds :
      \E config \in Configurations(loads[l].module) :
        \E upto \in 0..Len(InitializeSteps(loads[l].module)) :
            /\ loads[l].pc = "config"
            /\ LET m == loads[l].module
                   i == initialize(TheServer, [loads[l] EXCEPT !.config = config], l,
                                   InitializeSteps(m), 1, upto)
                   inst == [i.inst EXCEPT !.registered = i.inst.unregisterFunctions]
                   c == loadModuleCatch(loadedModules, i.st, inst, m, Error("initialize"))
               IN  IF i.threw
                   THEN /\ loads' = [loads EXCEPT ![l] = [c.inst EXCEPT !.pc = "failed",
                                                                        !.error = c.error]]
                        /\ loadedModules' = c.mods
                        /\ SetServer(c.st)
                   ELSE /\ loads' = [loads EXCEPT ![l] = [inst EXCEPT !.pc = "refresh"]]
                        /\ UNCHANGED loadedModules
                        /\ SetServer(i.st)
            /\ UNCHANGED <<teardown, awaited, pendingCatch, managerListeners>>
            /\ LifeOthersUnchanged

\* refreshCommands of loadModule settles.
RefreshSettles ==
    \E l \in LoadIds, ok \in BOOLEAN :
        /\ loads[l].pc = "refresh"
        /\ LET c == loadModuleCatch(loadedModules, TheServer, loads[l], loads[l].module,
                                    Error("refreshCommands"))
           IN  IF ok
               THEN /\ loads' = [loads EXCEPT ![l].pc = "done"]
                    /\ UNCHANGED loadedModules
                    /\ SetServer(TheServer)
               ELSE /\ loads' = [loads EXCEPT ![l] = [c.inst EXCEPT !.pc = "failed",
                                                                    !.error = c.error]]
                    /\ loadedModules' = c.mods
                    /\ SetServer(c.st)
        /\ UNCHANGED <<teardown, awaited, pendingCatch, managerListeners>>
        /\ LifeOthersUnchanged

\* Server.unloadModule(module) up to its first suspension: the id is
\* deleted from loadedModules, then module.unload() runs (it has no await);
\* when it rejects, unloadModule rejects, otherwise it calls refreshCommands.
unloadModule(mods, st, ls, l) ==
    LET u == unload(st, ls[l].unregisterFunctions, <<>>)
    IN  [ mods |-> modulesDelete(mods, ls[l].module),
          st   |-> u.st,
          ls   |-> [ls EXCEPT ![l].unregisterFunctions = u.fns,
                              ![l].called = u.called,
                              ![l].unloaded = IF u.threw THEN "threw" ELSE "refresh",
                              ![l].unloadError =
                                  IF u.threw
                                  THEN ModuleError(ls[l].module, "Failed to disable module.",
                                                   Error("cleanup"))
                                  ELSE NoError] ]

\* Verifier.reconfigure(config) on the instance Server.getModule('verifier')
\* returns: the configuration of the instance is replaced. A call with the
\* configuration the instance has changes nothing.
Reconfigure ==
    \E l \in LoadIds :
      \E config \in {Null, "config"} \ {loads[l].config} :
        /\ \E i \in 1..Len(loadedModules) :
              loadedModules[i].id = "verifier" /\ loadedModules[i].load = l
        /\ loads' = [loads EXCEPT ![l].config = config]
        /\ UNCHANGED <<botEmitter, serverEmitter, loadedCommands, loadedModules, teardown,
                       awaited, pendingCatch, managerListeners>>
        /\ LifeOthersUnchanged

\* The application unloads a loaded module.
UnloadModule ==
    \E i \in 1..Len(loadedModules) :
        /\ teardown = "none"
        /\ LET u == unloadModule(loadedModules, TheServer, loads, loadedModules[i].load)
           IN  /\ loadedModules' = u.mods
               /\ SetServer(u.st)
               /\ loads' = u.ls
        /\ UNCHANGED <<teardown, awaited, pendingCatch, managerListeners>>
        /\ LifeOthersUnchanged

\* Manager.emitter.emit(event): a one-time listener is gone afterwards.
managerEmit(listeners, event) ==
    IF listeners[event] = "once" THEN [listeners EXCEPT ![event] = "none"] ELSE listeners

\* this.emitter.emit('error', ...) of the manager: EventEmitter throws the
\* error when 'error' has no listener.
emitErrorThrows(listeners) == listeners["error"] = "none"

\* Manager.on and Manager.off on 'error' and 'leak' and Manager.once on
\* 'error', with one listener for an event at most.
ManagerOn ==
    \E event \in ManagerEventNames :
        /\ managerListeners[event] = "none"
        /\ managerListeners' = [managerListeners EXCEPT ![event] = "on"]
        /\ UNCHANGED <<botEmitter, serverEmitter, loadedCommands, loadedModules, loads,
                       teardown, awaited, pendingCatch>>
        /\ LifeOthersUnchanged
ManagerOnce ==
    \E event \in {"error"} :
        /\ managerListeners[event] = "none"
        /\ managerListeners' = [managerListeners EXCEPT ![event] = "once"]
        /\ UNCHANGED <<botEmitter, serverEmitter, loadedCommands, loadedModules, loads,
                       teardown, awaited, pendingCatch>>
        /\ LifeOthersUnchanged
ManagerOff ==
    \E event \in ManagerEventNames :
        /\ managerListeners[event] # "none"
        /\ managerListeners' = [managerListeners EXCEPT ![event] = "none"]
        /\ UNCHANGED <<botEmitter, serverEmitter, loadedCommands, loadedModules, loads,
                       teardown, awaited, pendingCatch>>
        /\ LifeOthersUnchanged

\* refreshCommands of unloadModule settles. When it rejects, unloadModule
\* rejects; for a call destroyServerInstance awaits, the .catch callback is
\* queued.
UnloadRefreshSettles ==
    \E l \in LoadIds, ok \in BOOLEAN :
        /\ loads[l].unloaded = "refresh"
        /\ loads' = [loads EXCEPT ![l].unloaded = IF ok THEN "ok" ELSE "refreshFailed"]
        /\ pendingCatch' = IF ~ok /\ l \in awaited
                            THEN Append(pendingCatch, l)
                            ELSE pendingCatch
        /\ UNCHANGED <<botEmitter, serverEmitter, loadedCommands, loadedModules, teardown,
                       awaited, managerListeners>>
        /\ LifeOthersUnchanged

\* server.modules.map(mod => server.unloadModule(mod)...): the calls are
\* made one after the other in the order of loadedModules, each running up
\* to its first suspension.
RECURSIVE unloadModules(_, _, _, _)
unloadModules(mods, st, ls, todo) ==
    IF todo = <<>> THEN [mods |-> mods, st |-> st, ls |-> ls]
    ELSE LET u == unloadModule(mods, st, ls, Head(todo).load)
         IN  unloadModules(u.mods, u.st, u.ls, Tail(todo))

\* The unloadModule calls of todo that have rejected by the time the caller
\* is suspended, in the order their .catch callbacks are queued.
RECURSIVE rejectedUnloads(_, _)
rejectedUnloads(ls, todo) ==
    IF todo = <<>> THEN <<>>
    ELSE (IF ls[Head(todo).load].unloaded = "threw" THEN <<Head(todo).load>> ELSE <<>>)
         \o rejectedUnloads(ls, Tail(todo))

\* The guild is removed: Manager.destroyServerInstance up to its await of
\* the unloadModule calls. The .catch callbacks of the calls that rejected
\* are queued; none has run when the call returns.
DestroyStart ==
    /\ teardown = "none"
    /\ LET u == unloadModules(loadedModules, TheServer, loads, loadedModules)
           mine == { loadedModules[i].load : i \in 1..Len(loadedModules) }
       IN  /\ loadedModules' = u.mods
           /\ SetServer(u.st)
           /\ loads' = u.ls
           /\ awaited' = mine
           /\ pendingCatch' = rejectedUnloads(u.ls, loadedModules)
    /\ teardown' = "unloading"
    /\ UNCHANGED managerListeners
    /\ LifeOthersUnchanged

\* The .catch callback of one rejected unloadModule call runs: 'error' is
\* emitted on the manager; when the emit throws, Promise.all rejects and
\* destroyServerInstance with it. The callbacks left still run.
DestroyCatch ==
    /\ pendingCatch # <<>>
    /\ pendingCatch' = Tail(pendingCatch)
    /\ managerListeners' = managerEmit(managerListeners, "error")
    /\ teardown' = IF teardown = "unloading" /\ emitErrorThrows(managerListeners)
                   THEN "rejected"
                   ELSE teardown
    /\ UNCHANGED <<botEmitter, serverEmitter, loadedCommands, loadedModules, loads, awaited>>
    /\ LifeOthersUnchanged

\* for (const command of server.commands) server.unregisterCommand(command)
RECURSIVE unregisterCommands(_, _)
unregisterCommands(st, names) ==
    IF names = {} THEN st
    ELSE LET name == CHOOSE n \in names : TRUE
         IN  unregisterCommands(serverUnregisterCommand(st, name), names \ {name})

\* for (const listener of listeners) server.off(listener.event, listener.listener)
RECURSIVE offListeners(_, _, _)
offListeners(st, event, listeners) ==
    IF listeners = <<>> THEN st
    ELSE offListeners(serverOff(st, event, Head(listeners)), event, Tail(listeners))

\* destroyServerInstance after its await: the commands left are
\* unregistered; when listeners are left, 'leak' is emitted or, with no
\* listener for it, 'error', which throws when it has no listener either;
\* then the listeners left are taken off.
destroyServerInstanceRest(st, listeners) ==
    LET st1 == unregisterCommands(st, DOMAIN st.commands)
        st2 == offListeners(st1, "userJoined", st1.server["userJoined"])
        left == Len(st1.server["userJoined"]) + Len(st1.server["userInteraction"])
        emitted == IF left = 0 THEN listeners
                   ELSE IF listeners["leak"] # "none" THEN managerEmit(listeners, "leak")
                   ELSE managerEmit(listeners, "error")
    IN  IF left > 0 /\ listeners["leak"] = "none" /\ emitErrorThrows(listeners)
        THEN [st |-> st1, listeners |-> emitted, threw |-> TRUE]
        ELSE [st |-> offListeners(st2, "userInteraction", st2.server["userInteraction"]),
              listeners |-> emitted, threw |-> FALSE]

\* Every unloadModule call destroyServerInstance awaits has settled.
DestroyFinish ==
    /\ teardown = "unloading"
    /\ \A l \in awaited : loads[l].unloaded # "refresh"
    /\ pendingCatch = <<>>
    /\ LET d == destroyServerInstanceRest(TheServer, managerListeners)
       IN  /\ SetServer(d.st)
           /\ teardown' = IF d.threw THEN "rejected" ELSE "done"
           /\ managerListeners' = d.listeners
    /\ UNCHANGED <<loadedModules, loads, awaited, pendingCatch>>
    /\ LifeOthersUnchanged

NextLife ==
    \/ LoadModule
    \/ ConfigSettles
    \/ RefreshSettles
    \/ UnloadModule
    \/ UnloadRefreshSettles
    \/ DestroyStart
    \/ DestroyCatch
    \/ DestroyFinish
    \/ Reconfigure
    \/ ManagerOn
    \/ ManagerOnce
    \/ ManagerOff

\* ---------------------------------------------------------------------
\* joinTextList
\* ---------------------------------------------------------------------
\* Array.prototype.join
RECURSIVE join(_, _)
join(items, separator) ==
    IF items = <<>> THEN <<>>
    ELSE IF Len(items) = 1 THEN items[1]
    ELSE items[1] \o separator \o join(Tail(items), separator)

\* Array.prototype.slice(0, end) for a negative end: the elements but the
\* last -end.
slice(items, end) == SubSeq(items, 1, Len(items) + end)

\* ' and '
AND_SEPARATOR == <<" ", "a", "n", "d", " ">>

RECURSIVE joinTextList(_)
joinTextList(items) ==
    IF Len(items) > 2
    THEN joinTextList(<< join(slice(items, -2), <<",">>) \o <<",">>, items[Len(items)] >>)
    ELSE join(items, AND_SEPARATOR)

\* role.toString(): the mention '<@&id>' of a role.
RoleIds == {"1", "2", "3"}
RoleMention(id) == <<"<", "@", "&", id, ">">>

\* The longest array handed to joinTextList.
MaxItems == 4
JoinInputs == UNION { [1..n -> {RoleMention(id) : id \in RoleIds}] : n \in 0..MaxItems }

IdleJoin == joinItems = <<>> /\ joinText = Null
InitJoin == joinItems \in JoinInputs /\ joinText = Null

JoinOthersUnchanged ==
    UNCHANGED <<matchVars, userAgent, gatewayVars, restVars, installVars,
                botEmitter, serverEmitter, loadedCommands, instances, lifeVars, findVars>>

\* joinTextList(mentions) as Verifier.replyToInteraction calls it.
JoinTextList ==
    /\ joinText = Null
    /\ joinText' = joinTextList(joinItems)
    /\ UNCHANGED joinItems
    /\ JoinOthersUnchanged

NextJoin == JoinTextList

\* ---------------------------------------------------------------------
\* Server.findMessage
\* ---------------------------------------------------------------------
\* The most messages a channel holds, the latest time one was created at,
\* the `limit` of a fetch (100 in the code) and the most iterations of the
\* while loop followed.
MaxHistory == 3
MaxTime == 2
PageLimit == 2
MaxPage == 5

\* ChannelType of discord-api-types: a text channel and a voice channel of a
\* guild.
GuildText == 0
GuildVoice == 2
ChannelTypes == {GuildText, GuildVoice}

\* `undefined` where the code holds a message or its id: ids start at 1.
NoMessage == 0

\* Date.now() when the search starts: after every message was created.
DateNow == MaxTime + 1

\* The channels: messages newest first. An id is a snowflake, which grows
\* with the time of creation, so ids fall along the list and timestamps do
\* not rise; two messages of the same millisecond have different ids.
\* `matches` is what the predicate returns for the message.
Channels ==
    UNION { { [i \in 1..n |-> [id |-> n + 1 - i, createdTimestamp |-> ts[i], matches |-> ms[i]]] :
                ts \in { t \in [1..n -> 1..MaxTime] : \A i \in 1..(n - 1) : t[i] >= t[i + 1] },
                ms \in [1..n -> BOOLEAN] } :
            n \in 0..MaxHistory }

IdleFind ==
    /\ channelType = GuildText
    /\ channel = <<>>
    /\ cache = {}
    /\ lastMessageId = NoMessage
    /\ lastMessageTimestamp = 0
    /\ page = 1
    /\ findPc = "idle"
    /\ findResult = NoMessage

InitFind ==
    /\ channelType \in ChannelTypes
    /\ channel \in Channels
    /\ cache \in SUBSET { channel[i].id : i \in 1..Len(channel) }
    /\ lastMessageId = NoMessage
    /\ lastMessageTimestamp = 0
    /\ page = 1
    /\ findPc = "idle"
    /\ findResult = NoMessage

FindOthersUnchanged ==
    UNCHANGED <<matchVars, userAgent, gatewayVars, restVars, installVars,
                botEmitter, serverEmitter, loadedCommands, instances, lifeVars, joinVars>>

\* channel.messages.fetch({ before, limit }): the newest `limit` messages
\* older than `before`, all messages counting when `before` is undefined.
fetch(ch, before, limit) ==
    LET older == SelectSeq(ch, LAMBDA m : before = NoMessage \/ m.id < before)
    IN  SubSeq(older, 1, IF Len(older) < limit THEN Len(older) ELSE limit)

\* The for loop over a page: return at the first message the predicate
\* accepts, and keep the first message whose timestamp is below every one
\* seen so far.
RECURSIVE scan(_, _, _)
scan(response, id, timestamp) ==
    IF response = <<>>
    THEN [found |-> NoMessage, lastMessageId |-> id, lastMessageTimestamp |-> timestamp]
    ELSE LET message == Head(response)
         IN  IF message.matches
             THEN [found |-> message.id, lastMessageId |-> id,
                   lastMessageTimestamp |-> timestamp]
             ELSE IF message.createdTimestamp < timestamp
                  THEN scan(Tail(response), message.id, message.createdTimestamp)
                  ELSE scan(Tail(response), id, timestamp)

\* The cached messages the predicate accepts.
CachedMatches ==
    { channel[i].id : i \in { k \in 1..Len(channel) :
                                 channel[k].id \in cache /\ channel[k].matches } }

\* findMessage up to the while loop: it throws for a channel that is no
\* text channel; step 1 returns a cached message the predicate accepts (the
\* first in the cache's own order); otherwise the locals of step 2 are set.
FindStart ==
    /\ findPc = "idle"
    /\ IF channelType # GuildText
       THEN /\ findPc' = "rejected"
            /\ UNCHANGED <<findResult, lastMessageId, lastMessageTimestamp, page>>
       ELSE IF CachedMatches # {}
       THEN /\ findPc' = "returned"
            /\ findResult' \in CachedMatches
            /\ UNCHANGED <<lastMessageId, lastMessageTimestamp, page>>
       ELSE /\ findPc' = "paging"
            /\ lastMessageId' = NoMessage
            /\ lastMessageTimestamp' = DateNow
            /\ page' = 1
            /\ UNCHANGED findResult
    /\ UNCHANGED <<channelType, channel, cache>>
    /\ FindOthersUnchanged

\* An iteration of the while loop up to its await: page++ and the call of
\* channel.messages.fetch({ before: lastMessageId, limit }).
FindFetch ==
    /\ findPc = "paging"
    /\ page < MaxPage
    /\ page' = page + 1
    /\ findPc' = "fetching"
    /\ UNCHANGED <<channelType, channel, cache, lastMessageId, lastMessageTimestamp, findResult>>
    /\ FindOthersUnchanged

\* The fetch of a page settles. When it rejects, findMessage rejects. An
\* empty page ends the search; otherwise the page is scanned, and at the
\* first message the predicate accepts findMessage fetches that message and
\* awaits it.
FindPage ==
    \E ok \in BOOLEAN :
        /\ findPc = "fetching"
        /\ LET response == fetch(channel, lastMessageId, PageLimit)
               s        == scan(response, lastMessageId, lastMessageTimestamp)
           IN  IF ~ok
               THEN /\ findPc' = "rejected"
                    /\ UNCHANGED <<findResult, lastMessageId, lastMessageTimestamp>>
               ELSE IF Len(response) = 0
               THEN /\ findPc' = "returned"
                    /\ findResult' = NoMessage
                    /\ UNCHANGED <<lastMessageId, lastMessageTimestamp>>
               ELSE IF s.found # NoMessage
               THEN /\ findPc' = "refetching"
                    /\ findResult' = s.found
                    /\ UNCHANGED <<lastMessageId, lastMessageTimestamp>>
               ELSE /\ findPc' = "paging"
                    /\ lastMessageId' = s.lastMessageId
                    /\ lastMessageTimestamp' = s.lastMessageTimestamp
                    /\ UNCHANGED findResult
        /\ UNCHANGED <<channelType, channel, cache, page>>
        /\ FindOthersUnchanged

\* channel.messages.fetch(message) settles: findMessage returns the message
\* or rejects.
FindRefetch ==
    \E ok \in BOOLEAN :
        /\ findPc = "refetching"
        /\ findPc' = IF ok THEN "returned" ELSE "rejected"
        /\ findResult' = IF ok THEN findResult ELSE NoMessage
        /\ UNCHANGED <<channelType, channel, cache, lastMessageId, lastMessageTimestamp, page>>
        /\ FindOthersUnchanged

NextFind ==
    \/ FindStart
    \/ FindFetch
    \/ FindPage
    \/ FindRefetch

\* ---------------------------------------------------------------------
\* Specifications
\* ---------------------------------------------------------------------
IdleMatch == mRoute = <<>> /\ mKey = <<>> /\ mPc = "idle" /\ mResult = FALSE

InitRest(ids) ==
    /\ routes = DEFAULT_ROUTE_PATCHES
    /\ writes = 0
    /\ reqs = [r \in ids |-> IdleRequest]

\* The state after userbot(client) returned, with one logical request.
Init ==
    /\ IdleMatch
    /\ InitRegistry
    /\ InitGateway
    /\ InitRest({"r1"})
    /\ InitInstalled
    /\ InitModules
    /\ IdleJoin
    /\ IdleFind

\* The REST interceptor under requests and route map writes.
Next ==
    \/ \E r \in DOMAIN reqs : RequestStart(r, RequestRoutes)
    \/ \E r \in DOMAIN reqs : ResolveStart(r)
    \/ \E r \in DOMAIN reqs : ResolveReturn(r, ResolvedHeaders)
    \/ \E r \in DOMAIN reqs : UserAgentReturn(r)
    \/ \E r \in DOMAIN reqs : UnderlyingReturn(r, Responses)
    \/ \E r \in DOMAIN reqs : UnderlyingFails(r, UnderlyingErrors)
    \/ \E r \in DOMAIN reqs : ResolveFails(r, UnderlyingErrors)
    \/ RouteSet(RouteWrites)
    \/ RouteDelete(RouteKeys)
Spec == Init /\ [][Next]_vars

\* The gateway interceptor under frames and registry writes.
SpecGateway == Init /\ [][NextGateway]_vars

\* Both interceptors, their steps interleaved in any order: a gateway frame
\* or registry write between the steps of a request, a request or route map
\* write between two frames, client.patches.userAgent.value written at any
\* time. The frames, registries, route maps and routes are drawn from
\* smaller sets than in the specification of each interceptor alone, and
\* the gateway registries are written but not deleted from: the Identify
\* opcode holds the default patch or one with both packet hooks, the
\* Dispatch opcode no patch or the one with both packet hooks, the Ready
\* event the default patch or another. The frames without d make every
\* hook that reads packet.d throw, the inbound packet hook included.
HooksOutboundFrames ==
    { [op |-> OpIdentify,
       d |-> [token |-> "tok", properties |-> BotProperties, shard |-> <<0, 1>>]],
      [op |-> OpIdentify],
      [op |-> OpHeartbeat, d |-> [seq |-> 41]] }
HooksInboundFrames ==
    { [op |-> OpDispatch, t |-> EventReady, s |-> 1,
       d |-> [v |-> 10, application |-> [id |-> "77", flags |-> 8]]],
      [op |-> OpDispatch, t |-> EventReady, s |-> 1] }
HooksPacketPatches ==
    { [outbound |-> "identifyOutbound"], [inbound |-> "markPacket", outbound |-> "markPacket"] }
HooksDispatchPatches == { [inbound |-> "markPacket", outbound |-> "markPacket"] }
HooksEventPatches == { [inbound |-> "readyInbound"], [inbound |-> "markEvent"] }
HooksRouteWrites == { <<Users42, "full">>, <<Users42, "reroute">>, <<TemplateC, "full">> }
HooksRoutes == {RouteGatewayBot, Users42, RouteC1}
HooksHeaders ==
    { ListHeaders(<< HeaderAuthorization \o <<":", " ">> \o BearerToken,
                     HeaderTrace \o <<":", " ">> \o TraceText >>) }
HooksResponses == { [url |-> "wss://gateway.discord.gg"] }
HooksUserAgents == {DEFAULT_USER_AGENT, NullValue}
HooksErrors == { <<"DiscordAPIError", "underlying">> }
NextHooks ==
    \/ ShardSend(HooksOutboundFrames, {<<>>})
    \/ WsEmit({WsDispatch}, HooksInboundFrames)
    \/ ShardOnPacket(HooksInboundFrames)
    \/ SetPacketPatch({OpIdentify}, HooksPacketPatches)
    \/ SetPacketPatch({OpDispatch}, HooksDispatchPatches)
    \/ SetEventPatch({EventReady}, HooksEventPatches)
    \/ SetUserAgent(HooksUserAgents)
    \/ \E r \in DOMAIN reqs : RequestStart(r, HooksRoutes)
    \/ \E r \in DOMAIN reqs : ResolveStart(r)
    \/ \E r \in DOMAIN reqs : ResolveReturn(r, HooksHeaders)
    \/ \E r \in DOMAIN reqs : UserAgentReturn(r)
    \/ \E r \in DOMAIN reqs : UnderlyingReturn(r, HooksResponses)
    \/ \E r \in DOMAIN reqs : UnderlyingFails(r, HooksErrors)
    \/ \E r \in DOMAIN reqs : ResolveFails(r, HooksErrors)
    \/ RouteSet(HooksRouteWrites)
    \/ RouteDelete({Users42})
SpecHooks == Init /\ [][NextHooks]_vars

\* Two logical requests in flight at once, under the default route map or
\* under a route map two writes have extended: '/users/42/' with a patch
\* that has every hook, '/gateway' with one that redirects and re-routes.
ExtendedRoutes ==
    routesSet(routesSet(DEFAULT_ROUTE_PATCHES, Users42, "full"), RouteGateway, "reroute")
InitTwo ==
    /\ IdleMatch
    /\ InitRegistry
    /\ InitGateway
    /\ routes \in {DEFAULT_ROUTE_PATCHES, ExtendedRoutes}
    /\ writes = Len(routes) - Len(DEFAULT_ROUTE_PATCHES)
    /\ reqs = [r \in {"r1", "r2"} |-> IdleRequest]
    /\ InitInstalled
    /\ InitModules
    /\ IdleJoin
    /\ IdleFind
NextTwo ==
    \/ \E r \in DOMAIN reqs : RequestStart(r, RequestRoutes)
    \/ \E r \in DOMAIN reqs : ResolveStart(r)
    \/ \E r \in DOMAIN reqs : ResolveReturn(r, ResolvedHeaders)
    \/ \E r \in DOMAIN reqs : UserAgentReturn(r)
    \/ \E r \in DOMAIN reqs : UnderlyingReturn(r, Responses)
    \/ \E r \in DOMAIN reqs : UnderlyingFails(r, UnderlyingErrors)
    \/ \E r \in DOMAIN reqs : ResolveFails(r, UnderlyingErrors)
SpecTwo == InitTwo /\ [][NextTwo]_vars

\* testParameterizedMatch on drawn routes and keys.
InitMatchOnly ==
    /\ InitMatch /\ InitRegistry /\ InitGateway /\ InitRest({"r1"}) /\ InitInstalled
    /\ InitModules /\ IdleJoin /\ IdleFind
NextMatch == TestMatch
SpecMatch == InitMatchOnly /\ [][NextMatch]_vars

\* Installation on a client of any shape, then manager assignments,
\* updateShardCount calls and REST use.
InitInstallOnly ==
    /\ IdleMatch /\ InitRegistry /\ InitGateway /\ InitRest({"r1"}) /\ InitInstall
    /\ InitModules /\ IdleJoin /\ IdleFind
SpecInstall == InitInstallOnly /\ [][NextInstall]_vars

\* Modules registering listeners and commands on one server, and unloading.
SpecModule == Init /\ [][NextModule]_vars

\* One server under calls of on, off, registerCommand and unregisterCommand.
SpecServer == Init /\ [][NextServer]_vars

\* One server whose modules are loaded and unloaded and whose guild is
\* removed.
SpecLife == Init /\ [][NextLife]_vars

\* joinTextList on drawn arrays of role mentions.
InitJoinOnly ==
    /\ IdleMatch /\ InitRegistry /\ InitGateway /\ InitRest({"r1"}) /\ InitInstalled
    /\ InitModules /\ InitJoin /\ IdleFind
SpecJoin == InitJoinOnly /\ [][NextJoin]_vars

\* findMessage on drawn channels, caches and predicates.
InitFindOnly ==
    /\ IdleMatch /\ InitRegistry /\ InitGateway /\ InitRest({"r1"}) /\ InitInstalled
    /\ InitModules /\ IdleJoin /\ InitFind
SpecFind == InitFindOnly /\ [][NextFind]_vars


\* ---------------------------------------------------------------------
\* REST claims
\* ---------------------------------------------------------------------
Started(q) == q.pc # "idle"
ResolveEntered(q) == q.pc \in {"resolving", "hooked", "sent", "done", "failed"}
CallsAt(q, point) == {i \in 1..Len(q.calls) : q.calls[i].point = point}
TheCall(q, point) == q.calls[CHOOSE i \in CallsAt(q, point) : TRUE]
IsKey(m, route) == \E i \in 1..Len(m) : m[i].key = route
MatchingEntries(m, route) == {i \in 1..Len(m) : testParameterizedMatch(route, m[i].key)}

\* The lookup in the words of the specification: the patch stored under the
\* exact key; failing that, the patch of the earliest-inserted entry whose
\* key matches the route as a template; failing that, none.
SelectedBy(m, route, patch) ==
    IF IsKey(m, route)
    THEN \E i \in 1..Len(m) : m[i].key = route /\ m[i].patch = patch
    ELSE IF MatchingEntries(m, route) # {}
    THEN \E i \in MatchingEntries(m, route) :
            /\ \A j \in MatchingEntries(m, route) : i <= j
            /\ m[i].patch = patch
    ELSE patch = NoPatch

\* What C2 says apart from the route the original request sees: the
\* original request is called exactly once when pre returns (never when pre
\* throws), after pre (if set) and before post (if set), with the request
\* pre returned; post receives that request and the original's response;
\* the caller receives what post returned, or the original's response when
\* post is not set.
C2_Order(q) ==
    LET P == q.patch
        u == TheCall(q, "underlying")
        returned == q.pc = "done" \/ q.failedAt = "post"
    IN  /\ Cardinality(CallsAt(q, "underlying")) = IF q.failedAt = "pre" THEN 0 ELSE 1
        /\ Cardinality(CallsAt(q, "pre")) = IF PatchHas(P, "pre") THEN 1 ELSE 0
        /\ q.failedAt = "pre" => PatchHas(P, "pre")
        /\ (PatchHas(P, "pre") /\ q.failedAt # "pre") =>
              /\ \A i \in CallsAt(q, "pre"), j \in CallsAt(q, "underlying") : i < j
              /\ TheCall(q, "pre").hook = RoutePatches[P]["pre"]
              /\ u.request = RestPre(RoutePatches[P]["pre"], TheCall(q, "pre").request)
        /\ q.failedAt # "pre" => u.request = q.options
        /\ Cardinality(CallsAt(q, "post")) =
              IF returned /\ PatchHas(P, "post") THEN 1 ELSE 0
        /\ returned =>
              IF PatchHas(P, "post")
              THEN /\ \A i \in CallsAt(q, "underlying"), j \in CallsAt(q, "post") : i < j
                   /\ TheCall(q, "post").hook = RoutePatches[P]["post"]
                   /\ TheCall(q, "post").request = u.request
                   /\ TheCall(q, "post").arg = q.response
                   /\ q.pc = "done" =>
                         q.result = RestPost(RoutePatches[P]["post"], u.request, q.response)
              ELSE q.result = q.response

\* C2 as claimed: the order above, and the original request is invoked with
\* the request returned by pre, whose route is P.redirect when redirect is
\* set (so '/gateway/bot' under the default patch reaches it as '/gateway').
C2_UnderlyingSeesRedirect ==
    \A r \in DOMAIN reqs :
        Started(reqs[r]) =>
            /\ C2_Order(reqs[r])
            /\ (PatchHas(reqs[r].patch, "redirect") /\ reqs[r].failedAt # "pre") =>
                  TheCall(reqs[r], "underlying").request["fullRoute"]
                      = RoutePatches[reqs[r].patch]["redirect"]
            /\ (reqs[r].route = RouteGatewayBot /\ reqs[r].patch = "gatewayBot") =>
                  TheCall(reqs[r], "underlying").request["fullRoute"] = RouteGateway

\* C2 amended: the order above, and the original request is invoked with the
\* request returned by pre, pre having been given the request whose route is
\* P.redirect when redirect is set; when pre is not set the original request
\* itself sees the route P.redirect (so '/gateway/bot' under the default
\* patch reaches it as '/gateway').
C2_PreSeesRedirect ==
    \A r \in DOMAIN reqs :
        Started(reqs[r]) =>
            LET q     == reqs[r]
                first == IF PatchHas(q.patch, "pre") THEN TheCall(q, "pre")
                         ELSE TheCall(q, "underlying")
            IN  /\ C2_Order(q)
                /\ first.request["fullRoute"] =
                      IF PatchHas(q.patch, "redirect")
                      THEN RoutePatches[q.patch]["redirect"]
                      ELSE q.route
                /\ (q.route = RouteGatewayBot /\ q.patch = "gatewayBot") =>
                      TheCall(q, "underlying").request["fullRoute"] = RouteGateway

\* A request whose patch sets redirect, pre and post has returned: pre ran on
\* the redirected route and returned a request for another route, which the
\* original request and post received.
C2_Witness ==
    \E r \in DOMAIN reqs :
        /\ reqs[r].pc = "done"
        /\ PatchHas(reqs[r].patch, "redirect")
        /\ PatchHas(reqs[r].patch, "pre")
        /\ PatchHas(reqs[r].patch, "post")
        /\ TheCall(reqs[r], "pre").request["fullRoute"] = RoutePatches[reqs[r].patch]["redirect"]
        /\ TheCall(reqs[r], "underlying").request["fullRoute"] # RoutePatches[reqs[r].patch]["redirect"]
        /\ reqs[r].result # reqs[r].response

\* C3: when the concrete route is itself a key of the route map, the patch
\* selected is the one stored under that key, also when a template that
\* matches the route was inserted earlier; at the request and at the resolve
\* interception point.
C3_ExactKeyPreferred ==
    \A r \in DOMAIN reqs :
        /\ (Started(reqs[r]) /\ IsKey(reqs[r].seen, reqs[r].route)) =>
              \E i \in 1..Len(reqs[r].seen) :
                  /\ reqs[r].seen[i].key = reqs[r].route
                  /\ reqs[r].seen[i].patch = reqs[r].patch
        /\ (ResolveEntered(reqs[r]) /\ IsKey(reqs[r].rseen, reqs[r].options["fullRoute"])) =>
              \E i \in 1..Len(reqs[r].rseen) :
                  /\ reqs[r].rseen[i].key = reqs[r].options["fullRoute"]
                  /\ reqs[r].rseen[i].patch = reqs[r].rpatch

\* Both wrappers looked up a route that is a key of the map and that a
\* template inserted before that key, holding another patch, matches.
C3_Witness ==
    \E r \in DOMAIN reqs :
        LET q == reqs[r]
        IN  /\ ResolveEntered(q)
            /\ q.rseen = q.seen
            /\ q.options["fullRoute"] = q.route
            /\ \E j \in 1..Len(q.seen) :
                  /\ q.seen[j].key = q.route
                  /\ q.seen[j].patch = q.patch
                  /\ q.seen[j].patch = q.rpatch
                  /\ \E i \in 1..(j - 1) :
                        /\ testParameterizedMatch(q.route, q.seen[i].key)
                        /\ q.seen[i].patch # q.seen[j].patch

\* C4: when the concrete route is not a key of the route map, the patch
\* selected is that of the first entry, in insertion order, whose key
\* matches the route as a template (the earliest-inserted of several), and
\* no patch when none matches; at both interception points.
C4_FirstTemplateInInsertionOrder ==
    \A r \in DOMAIN reqs :
        /\ (Started(reqs[r]) /\ ~IsKey(reqs[r].seen, reqs[r].route)) =>
              LET ms == MatchingEntries(reqs[r].seen, reqs[r].route)
              IN  IF ms = {} THEN reqs[r].patch = NoPatch
                  ELSE \E i \in ms : /\ \A j \in ms : i <= j
                                     /\ reqs[r].patch = reqs[r].seen[i].patch
        /\ (ResolveEntered(reqs[r]) /\ ~IsKey(reqs[r].rseen, reqs[r].options["fullRoute"])) =>
              LET ms == MatchingEntries(reqs[r].rseen, reqs[r].options["fullRoute"])
              IN  IF ms = {} THEN reqs[r].rpatch = NoPatch
                  ELSE \E i \in ms : /\ \A j \in ms : i <= j
                                     /\ reqs[r].rpatch = reqs[r].rseen[i].patch

\* A route that is no key was looked up while two templates holding
\* different patches match it: the patch of the earlier one was selected.
C4_Witness ==
    \E r \in DOMAIN reqs :
        LET q  == reqs[r]
            ms == MatchingEntries(q.seen, q.route)
        IN  /\ Started(q)
            /\ ~IsKey(q.seen, q.route)
            /\ \E i \in ms, j \in ms :
                  /\ i < j
                  /\ \A k \in ms : i <= k
                  /\ q.seen[i].patch # q.seen[j].patch
                  /\ q.patch = q.seen[i].patch

\* C7: when the selected patch sets redirect, the pre and post hooks applied
\* to the request are those of the patch that the originally requested route
\* selects: each of that patch's pre and post hooks is applied, and no pre or
\* post hook of the redirect target's own entry is.
C7_RedirectKeepsSelectedPatch ==
    \A r \in DOMAIN reqs :
        (Started(reqs[r]) /\ PatchHas(reqs[r].patch, "redirect")) =>
            LET q == reqs[r]
            IN  /\ SelectedBy(q.seen, q.route, q.patch)
                /\ \A i \in CallsAt(q, "pre") \cup CallsAt(q, "post") :
                      /\ SelectedBy(q.seen, q.route, q.calls[i].patch)
                      /\ q.calls[i].hook = RoutePatches[q.calls[i].patch][q.calls[i].point]
                /\ PatchHas(q.patch, "pre") => CallsAt(q, "pre") # {}
                /\ (q.pc = "done" /\ PatchHas(q.patch, "post")) => CallsAt(q, "post") # {}

\* A redirected request has returned while the redirect target has an entry
\* of its own, with pre and post hooks, in the map the request read and in
\* the map as it is now: only the hooks of the requested route's patch ran.
C7_Witness ==
    \E r \in DOMAIN reqs :
        LET q      == reqs[r]
            target == RoutePatches[q.patch]["redirect"]
        IN  /\ q.pc = "done"
            /\ PatchHas(q.patch, "redirect")
            /\ target # q.route
            /\ routesGet(q.seen, target) # NoPatch
            /\ routesGet(q.seen, target) # q.patch
            /\ routesGet(routes, target) = routesGet(q.seen, target)
            /\ PatchHas(routesGet(q.seen, target), "pre")
            /\ PatchHas(routesGet(q.seen, target), "post")
            /\ CallsAt(q, "pre") = {}
            /\ CallsAt(q, "post") # {}
            /\ TheCall(q, "post").patch = q.patch

\* C8 as claimed: under any interleaving of route map writes with the
\* request's suspension points, the pre, resolve and post hooks applied to
\* one logical request all belong to one and the same patch object.
C8_OnePatchObjectPerRequest ==
    \A r \in DOMAIN reqs :
        \A i, j \in CallsAt(reqs[r], "pre") \cup CallsAt(reqs[r], "resolve")
                    \cup CallsAt(reqs[r], "post") :
            reqs[r].calls[i].patch = reqs[r].calls[j].patch

\* C8 amended: under any interleaving of route map writes with the request's
\* suspension points, the pre and post hooks applied to one logical request
\* belong to one and the same patch object, the one the route map held for
\* the requested route when the request started; the resolve hook is
\* selected separately, from the route map as it is when resolveRequest is
\* called and by the route the request then carries, and may belong to
\* another patch object.
C8_PrePostOfStartPatchResolveOfResolvePatch ==
    \A r \in DOMAIN reqs :
        LET q == reqs[r]
        IN  /\ \A i \in CallsAt(q, "pre") \cup CallsAt(q, "post") :
                  /\ q.calls[i].patch = q.patch
                  /\ SelectedBy(q.seen, q.route, q.calls[i].patch)
            /\ \A i \in CallsAt(q, "resolve") :
                  /\ q.calls[i].patch = q.rpatch
                  /\ SelectedBy(q.rseen, q.options["fullRoute"], q.calls[i].patch)
            /\ (q.pc = "done" /\ PatchHas(q.patch, "post")) => CallsAt(q, "post") # {}

\* A request has returned after the route map was written between its start
\* and its resolve step: its pre and post hooks are of the patch object it
\* started with, its resolve hook of the object stored since.
C8_Witness ==
    \E r \in DOMAIN reqs :
        LET q == reqs[r]
        IN  /\ q.pc = "done"
            /\ q.seen # q.rseen
            /\ CallsAt(q, "pre") # {}
            /\ CallsAt(q, "resolve") # {}
            /\ CallsAt(q, "post") # {}
            /\ TheCall(q, "pre").patch = TheCall(q, "post").patch
            /\ TheCall(q, "resolve").patch # TheCall(q, "post").patch


\* ---------------------------------------------------------------------
\* Installation and websocket manager claims
\* ---------------------------------------------------------------------
\* The send of every shard of the manager is wrapped.
ShardsWrapped(mgr) == \A i \in 1..Len(mgr.shards) : mgr.shards[i].sendWraps >= 1

\* C11: on a client that has every hook point, after any sequence of
\* assignments to _ws and of updateShardCount calls, the emit of the current
\* manager is wrapped by the inbound interceptor and, when no call of
\* updateShardCount on it is in flight, the send of every shard in its shard
\* set is wrapped by the outbound interceptor.
C11_NeverLosesCoverage ==
    (install = "ok" /\ hooks = HookPoints /\ ws # Null) =>
        /\ mgrs[ws].emitWraps >= 1
        /\ mgrs[ws].uscWraps >= 1
        /\ mgrs[ws].inflight = <<>> => ShardsWrapped(mgrs[ws])

\* C15: when any of the hook points the patches depend on (_ws,
\* updateShardCount, emit, a shard's send, request, resolveRequest) is missing
\* from the client, userbot(client) fails with an error at installation.
C15_MissingHookFailsInstall ==
    (install # "none" /\ hooks # HookPoints) => install = "threw"

\* ---------------------------------------------------------------------
\* Header claims
\* ---------------------------------------------------------------------
\* The request went through resolveRequest and the wrappers returned.
Resolved(q) == q.pc \in {"sent", "done"}

\* What the original resolveRequest returned for the request.
OriginalResolved(q) == TheCall(q, "originalResolve").arg

\* C12: for every resolved request, whether the original resolveRequest
\* returned its headers as a list of 'Name: value' strings or as a mapping,
\* the wire form returned by the wrappers carries its headers as a mapping
\* that contains User-Agent with the configured userAgent value.
C12_UserAgentInMapping ==
    \A r \in DOMAIN reqs :
        Resolved(reqs[r]) =>
            /\ reqs[r].resolved.headers.form = "map"
            /\ Has(reqs[r].resolved.headers.map, HeaderUserAgent)
            /\ reqs[r].resolved.headers.map[HeaderUserAgent] = userAgent

\* C13: when the original resolveRequest returned its headers as a list,
\* they are a mapping by the time the route patch's resolve hook runs: every
\* resolve hook is given headers in mapping form.
C13_ResolveHookGivenMapping ==
    \A r \in DOMAIN reqs :
        \A i \in CallsAt(reqs[r], "resolve") :
            reqs[r].calls[i].arg.headers.form = "map"


\* ---------------------------------------------------------------------
\* Errors thrown by hooks
\* ---------------------------------------------------------------------
\* The REST hook calls of a request that threw.
RestThrowers(q) ==
    {i \in 1..Len(q.calls) :
        \/ q.calls[i].point = "pre" /\ RestPreThrows(q.calls[i].hook, q.calls[i].request)
        \/ q.calls[i].point = "post"
              /\ RestPostThrows(q.calls[i].hook, q.calls[i].request, q.calls[i].arg)
        \/ q.calls[i].point = "resolve"
              /\ RestResolveThrows(q.calls[i].hook, q.calls[i].request, q.calls[i].arg)}

C14_Rest(q) ==
    /\ \A i \in RestThrowers(q) :
          /\ q.pc = "failed"
          /\ q.failedAt = q.calls[i].point
          /\ q.error = HookError(q.calls[i].hook)
          /\ i = Len(q.calls)
          /\ q.calls[i].point = "pre" => CallsAt(q, "underlying") = {}
    /\ \A point \in {"pre", "post", "resolve", "underlying", "originalResolve"} :
          Cardinality(CallsAt(q, point)) <= 1
    /\ (q.pc = "failed" /\ q.failedAt \notin {"wrapResolveRequest", "underlying", "originalResolve"})
          => RestThrowers(q) # {}

C14_Gateway(g) ==
    /\ \A i \in 1..Len(g.calls) :
          g.calls[i].threw =>
              /\ g.threw
              /\ g.error = HookError(g.calls[i].hook)
              /\ i = Len(g.calls)
              /\ g.real = <<>>
    /\ \A i \in 1..Len(g.calls) :
          g.calls[i].threw = GatewayHookThrows(g.calls[i].hook, g.calls[i].input)
    /\ \A i, j \in 1..Len(g.calls) : g.calls[i].point = g.calls[j].point => i = j
    /\ Len(g.real) <= 1
    /\ g.threw => \E i \in 1..Len(g.calls) : g.calls[i].threw

\* C14: an error thrown by a hook (REST pre, post, resolve; gateway packet
\* outbound, packet inbound, event inbound) is the error the caller of the
\* wrapped operation receives; the throwing call is the last call the
\* wrapper makes, no hook and no original function is called a second time,
\* and the original request function is not called when pre threw.
C14_HookErrorsPropagate ==
    /\ \A r \in DOMAIN reqs : C14_Rest(reqs[r])
    /\ C14_Gateway(gwLast)

\* The wrapped emit was called for a Dispatch event whose frame has no d,
\* with an inbound packet hook registered for the Dispatch opcode: the hook
\* threw, the caller of emit received the hook's error, the event hook and
\* the original emit were not called; and a request has failed with the
\* error its pre hook threw, the original request not called.
C14_Witness ==
    /\ gwLast.kind = "emit"
    /\ gwLast.event = WsDispatch
    /\ Len(gwLast.calls) = 1
    /\ gwLast.calls[1].point = "packet.inbound"
    /\ gwLast.calls[1].hook = "markPacket"
    /\ gwLast.calls[1].threw
    /\ gwLast.threw
    /\ gwLast.error = HookError("markPacket")
    /\ gwLast.real = <<>>
    /\ HasHook(events, EventNameOf(gwLast.input["data"]), "inbound")
    /\ \E r \in DOMAIN reqs :
          /\ reqs[r].pc = "failed"
          /\ reqs[r].failedAt = "pre"
          /\ reqs[r].error = HookError("preMark")
          /\ CallsAt(reqs[r], "pre") # {}
          /\ CallsAt(reqs[r], "underlying") = {}

\* ---------------------------------------------------------------------
\* The default gateway-bot patch
\* ---------------------------------------------------------------------
\* A request for '/gateway/bot' that selected the default patch has returned.
GatewayBotDone(q) ==
    /\ q.pc = "done"
    /\ q.route = RouteGatewayBot
    /\ q.patch = "gatewayBot"

\* C16 as claimed: whatever the original request answered, the response of
\* a gateway-bot request has shards = 1 and a session_start_limit with
\* remaining = 1 and max_concurrency = 1.
C16_AlwaysSingleShard ==
    \A r \in DOMAIN reqs :
        GatewayBotDone(reqs[r]) =>
            /\ Has(reqs[r].result, "shards")
            /\ reqs[r].result["shards"] = 1
            /\ Has(reqs[r].result, "session_start_limit")
            /\ reqs[r].result["session_start_limit"].remaining = 1
            /\ reqs[r].result["session_start_limit"].max_concurrency = 1

\* C16 amended: the response of a gateway-bot request has shards = 1 when
\* the original's answer has no shards field, and the session_start_limit
\* {total 1, remaining 1, reset_after 14400000, max_concurrency 1} when the
\* answer has no session_start_limit field; a field the answer has is
\* returned as the answer has it.
C16_SingleShardUnlessAnswered ==
    \A r \in DOMAIN reqs :
        GatewayBotDone(reqs[r]) =>
            /\ Has(reqs[r].result, "shards")
            /\ reqs[r].result["shards"] =
                  IF Has(reqs[r].response, "shards") THEN reqs[r].response["shards"] ELSE 1
            /\ Has(reqs[r].result, "session_start_limit")
            /\ IF Has(reqs[r].response, "session_start_limit")
               THEN reqs[r].result["session_start_limit"] = reqs[r].response["session_start_limit"]
               ELSE /\ reqs[r].result["session_start_limit"].remaining = 1
                    /\ reqs[r].result["session_start_limit"].max_concurrency = 1
                    /\ reqs[r].result["session_start_limit"].total = 1
                    /\ reqs[r].result["session_start_limit"].reset_after = 14400000

\* A gateway-bot request returned on an answer that held the url only: the
\* caller received shards = 1 and the synthesized limit.
C16_Witness ==
    \E r \in DOMAIN reqs :
        /\ GatewayBotDone(reqs[r])
        /\ ~Has(reqs[r].response, "shards")
        /\ ~Has(reqs[r].response, "session_start_limit")
        /\ reqs[r].result["shards"] = 1
        /\ reqs[r].result["session_start_limit"].remaining = 1

\* C17: every field of the original's answer is a field of the response of
\* a gateway-bot request, with the same value; the synthesized shards and
\* session_start_limit never replace a field of the answer.
C17_AnswerFieldsKept ==
    \A r \in DOMAIN reqs :
        GatewayBotDone(reqs[r]) =>
            /\ \A k \in DOMAIN reqs[r].response :
                  /\ Has(reqs[r].result, k)
                  /\ reqs[r].result[k] = reqs[r].response[k]
            /\ DOMAIN reqs[r].result = (DOMAIN reqs[r].response) \cup {"shards", "session_start_limit"}

\* A gateway-bot request returned on an answer that held shards and
\* session_start_limit of its own: the caller received those.
C17_Witness ==
    \E r \in DOMAIN reqs :
        /\ GatewayBotDone(reqs[r])
        /\ Has(reqs[r].response, "shards")
        /\ reqs[r].response["shards"] # DefaultShards
        /\ reqs[r].result["shards"] = reqs[r].response["shards"]
        /\ reqs[r].result["session_start_limit"] = GatewayLimit

\* ---------------------------------------------------------------------
\* The default Identify patch
\* ---------------------------------------------------------------------
\* An Identify frame (opcode Identify, with its d) was sent through a
\* wrapped shard while the registry held the default Identify patch.
IdentifySent ==
    /\ gwLast.kind = "send"
    /\ Has(gwLast.input, "op")
    /\ gwLast.input["op"] = OpIdentify
    /\ Has(gwLast.input, "d")
    /\ HasHook(packets, OpIdentify, "outbound")
    /\ packets[OpIdentify]["outbound"] = "identifyOutbound"

\* C18: every Identify frame sent through a wrapped shard reaches the real
\* send, once, with d.capabilities = 4093, d.properties the 14-key client
\* descriptor, no d.shard, and op, the frame's other fields and every other
\* field of d as they were sent.
C18_IdentifyRewritten ==
    IdentifySent =>
        /\ ~gwLast.threw
        /\ Len(gwLast.real) = 1
        /\ LET sent == gwLast.input
               got  == gwLast.real[1].frame
               rewritten == {"capabilities", "properties", "shard"}
           IN  /\ DOMAIN got = DOMAIN sent
               /\ \A k \in DOMAIN sent \ {"d"} : got[k] = sent[k]
               /\ got["op"] = OpIdentify
               /\ Has(got["d"], "capabilities")
               /\ got["d"]["capabilities"] = 4093
               /\ Has(got["d"], "properties")
               /\ got["d"]["properties"] = IdentifyProperties(userAgent)
               /\ Cardinality(DOMAIN got["d"]["properties"]) = 14
               /\ ~Has(got["d"], "shard")
               /\ DOMAIN got["d"] = ((DOMAIN sent["d"]) \cup {"capabilities", "properties"}) \ {"shard"}
               /\ \A k \in (DOMAIN sent["d"]) \ rewritten : got["d"][k] = sent["d"][k]

\* An Identify frame carrying a bot's properties and a shard pair was sent
\* and reached the real send without the pair, its token kept.
C18_Witness ==
    /\ IdentifySent
    /\ Has(gwLast.input["d"], "shard")
    /\ Has(gwLast.input["d"], "properties")
    /\ Len(gwLast.real) = 1
    /\ ~Has(gwLast.real[1].frame["d"], "shard")
    /\ gwLast.real[1].frame["d"]["properties"] # gwLast.input["d"]["properties"]
    /\ gwLast.real[1].frame["d"]["token"] = gwLast.input["d"]["token"]

\* ---------------------------------------------------------------------
\* The default '/users/{:id}/' patch
\* ---------------------------------------------------------------------
NoHeader == <<"undefined">>

\* The Authorization value headers carry, in either form.
AuthorizationOf(headers) ==
    LET m == IF headers.form = "map" THEN headers.map ELSE headersFromEntries(headers.items)
    IN  IF Has(m, HeaderAuthorization) THEN m[HeaderAuthorization] ELSE NoHeader

\* The original resolveRequest has returned to the wrappers.
ResolveAnswered(q) == CallsAt(q, "originalResolve") # {}

\* Every wrapper of resolveRequest has finished, with a result or an error.
ResolveReturned(q) == ResolveAnswered(q) /\ q.pc # "hooked"

\* The wrappers returned a wire form to the caller of resolveRequest.
ResolveSucceeded(q) ==
    /\ ResolveReturned(q)
    /\ q.failedAt \notin {"resolve", "wrapResolveRequest"}

\* C19: a resolved request whose route selected the '/users/{:id}/' patch
\* and whose headers carry an Authorization value is returned with that
\* value less its leading 'Bearer ', or with that value as it is when it
\* does not start with 'Bearer '.
C19_BearerPrefixRemoved ==
    \A r \in DOMAIN reqs :
        LET q == reqs[r]
        IN  ( /\ ResolveReturned(q)
              /\ q.rpatch = "users"
              /\ AuthorizationOf(OriginalResolved(q).headers) # NoHeader ) =>
                /\ ResolveSucceeded(q)
                /\ AuthorizationOf(q.resolved.headers)
                      = stripBearerPrefix(AuthorizationOf(OriginalResolved(q).headers))

\* C20 as claimed: under the default route map, a resolved request whose
\* route is not an instance of '/users/{:id}/' keeps the Authorization value
\* the original resolveRequest produced.
C20_OnlyUserProfileRoute ==
    \A r \in DOMAIN reqs :
        LET q == reqs[r]
        IN  ( /\ ResolveSucceeded(q)
              /\ q.rseen = DEFAULT_ROUTE_PATCHES
              /\ ~IsInstance(TemplateTokens(UsersTemplate), q.options["fullRoute"]) ) =>
                AuthorizationOf(q.resolved.headers) = AuthorizationOf(OriginalResolved(q).headers)

\* C20 amended: a resolved request keeps the Authorization value the
\* original resolveRequest produced unless its route selected the
\* '/users/{:id}/' patch; under the default route map the routes that select
\* it are those of which a prefix is an instance of '/users/{:id}/'
\* ('/users/42/' and also '/users/42/guilds').
C20_OnlyRoutesSelectingThePatch ==
    \A r \in DOMAIN reqs :
        LET q == reqs[r]
        IN  /\ (ResolveSucceeded(q) /\ q.rpatch # "users") =>
                  AuthorizationOf(q.resolved.headers) = AuthorizationOf(OriginalResolved(q).headers)
            /\ (ResolveEntered(q) /\ q.rseen = DEFAULT_ROUTE_PATCHES) =>
                  (q.rpatch = "users" <=> PrefixIsInstance(q.options["fullRoute"], UsersTemplate))

\* Under the default route map a request for '/users/42/guilds' was resolved
\* with 'Bearer ' removed, and one for another route would keep it.
C20_Witness ==
    \E r \in DOMAIN reqs :
        /\ ResolveSucceeded(reqs[r])
        /\ reqs[r].rseen = DEFAULT_ROUTE_PATCHES
        /\ reqs[r].options["fullRoute"] = Users42Guilds
        /\ AuthorizationOf(OriginalResolved(reqs[r]).headers) = BearerToken
        /\ AuthorizationOf(reqs[r].resolved.headers) = TokenText

\* ---------------------------------------------------------------------
\* The default Ready patch
\* ---------------------------------------------------------------------
\* A Ready dispatch frame arrived while the registry held the default Ready
\* patch and, as by default, no inbound packet hook for Dispatch.
ReadyReceived ==
    /\ InboundFrameCall(gwLast)
    /\ ReceivedFrame(gwLast)["op"] = OpDispatch
    /\ EventNameOf(ReceivedFrame(gwLast)) = EventReady
    /\ ~HasHook(packets, OpDispatch, "inbound")
    /\ HasHook(events, EventReady, "inbound")
    /\ events[EventReady]["inbound"] = "readyInbound"

\* C21: every inbound Ready dispatch frame that is delivered downstream is
\* delivered with d.application = {id: '0', flags: 0}, and with op, t, s and
\* every other field of d as received; a Ready frame with its d is always
\* delivered, once.
C21_ReadyApplicationPlaceholder ==
    ReadyReceived =>
        LET f == ReceivedFrame(gwLast)
        IN  /\ Has(f, "d") => ~gwLast.threw
            /\ ~gwLast.threw =>
                  /\ Len(gwLast.real) = 1
                  /\ LET got == DeliveredFrame(gwLast)
                     IN  /\ DOMAIN got = DOMAIN f
                         /\ \A k \in DOMAIN f \ {"d"} : got[k] = f[k]
                         /\ Has(got["d"], "application")
                         /\ got["d"]["application"] = [id |-> "0", flags |-> 0]
                         /\ DOMAIN got["d"] = (DOMAIN f["d"]) \cup {"application"}
                         /\ \A k \in (DOMAIN f["d"]) \ {"application"} : got["d"][k] = f["d"][k]

\* A Ready frame that carried an application block of its own was delivered
\* with the placeholder in its place and its other fields kept.
C21_Witness ==
    /\ ReadyReceived
    /\ Has(ReceivedFrame(gwLast), "d")
    /\ Has(ReceivedFrame(gwLast)["d"], "application")
    /\ ReceivedFrame(gwLast)["d"]["application"] # ReadyApplication
    /\ Len(gwLast.real) = 1
    /\ DeliveredFrame(gwLast)["d"]["application"] = ReadyApplication
    /\ DeliveredFrame(gwLast)["d"]["v"] = ReceivedFrame(gwLast)["d"]["v"]
    /\ DeliveredFrame(gwLast)["s"] = ReceivedFrame(gwLast)["s"]

\* ---------------------------------------------------------------------
\* The registry is read when an operation is intercepted
\* ---------------------------------------------------------------------
\* Every hook a gateway wrapper called is the hook the registries pk and ev hold
\* under the key of the frame it was called on, and a hook the registry
\* holds for the frame's opcode is called.
C22_Gateway(g, pk, ev) ==
    /\ \A i \in 1..Len(g.calls) :
          LET c == g.calls[i]
          IN  /\ c.point = "packet.outbound" =>
                    /\ HasHook(pk, c.input["op"], "outbound")
                    /\ c.hook = pk[c.input["op"]]["outbound"]
              /\ c.point = "packet.inbound" =>
                    /\ HasHook(pk, c.input["op"], "inbound")
                    /\ c.hook = pk[c.input["op"]]["inbound"]
              /\ c.point = "event.inbound" =>
                    /\ HasHook(ev, EventNameOf(c.input), "inbound")
                    /\ c.hook = ev[EventNameOf(c.input)]["inbound"]
    /\ (g.kind = "send" /\ Has(g.input, "op") /\ HasHook(pk, g.input["op"], "outbound")) =>
          Len(g.calls) = 1
    /\ (InboundFrameCall(g) /\ HasHook(pk, ReceivedFrame(g)["op"], "inbound")) =>
          /\ Len(g.calls) >= 1
          /\ g.calls[1].point = "packet.inbound"
    /\ ( /\ InboundFrameCall(g)
         /\ ReceivedFrame(g)["op"] = OpDispatch
         /\ ~HasHook(pk, OpDispatch, "inbound")
         /\ HasHook(ev, EventNameOf(ReceivedFrame(g)), "inbound") ) =>
          /\ Len(g.calls) = 1
          /\ g.calls[1].point = "event.inbound"

\* The step in which request r starts: its patch is the one the route map
\* holds now for its route, and the pre hook called is that patch's.
C22_RequestStep(r) ==
    (reqs[r].pc = "idle" /\ reqs'[r].pc # "idle") =>
        LET q == reqs'[r]
        IN  /\ SelectedBy(routes, q.route, q.patch)
            /\ IsKey(routes, q.route) => q.patch = routesGet(routes, q.route)
            /\ \A i \in CallsAt(q, "pre") :
                  /\ q.calls[i].patch = q.patch
                  /\ q.calls[i].hook = RoutePatches[q.patch]["pre"]
            /\ PatchHas(q.patch, "pre") <=> CallsAt(q, "pre") # {}

\* The step in which resolveRequest is entered for request r: its patch is
\* the one the route map holds now for the route the request carries.
C22_ResolveStep(r) ==
    (reqs[r].pc = "underlying" /\ reqs'[r].pc = "resolving") =>
        /\ SelectedBy(routes, reqs[r].options["fullRoute"], reqs'[r].rpatch)
        /\ IsKey(routes, reqs[r].options["fullRoute"]) =>
              reqs'[r].rpatch = routesGet(routes, reqs[r].options["fullRoute"])

\* The step in which the original resolveRequest returns: the resolve hook
\* called is that of the patch selected on entry.
C22_ResolveReturnStep(r) ==
    (reqs[r].pc = "resolving" /\ reqs'[r].pc # "resolving" /\ ResolveAnswered(reqs'[r])) =>
        /\ \A i \in CallsAt(reqs'[r], "resolve") :
              /\ reqs'[r].calls[i].patch = reqs[r].rpatch
              /\ reqs'[r].calls[i].hook = RoutePatches[reqs[r].rpatch]["resolve"]
        /\ PatchHas(reqs[r].rpatch, "resolve") <=> CallsAt(reqs'[r], "resolve") # {}

\* C22: an intercepted operation reads the registry when it starts: a
\* wrapped send, emit or onPacket calls the hooks the packet and event
\* registries hold at that moment, a REST request selects its patch in the
\* route map as it is when the request starts and resolveRequest in the map
\* as it is when it is entered; a key has one entry at most, so after a
\* write to a key the operations that start use the object written and no
\* hook of the object it replaced.
C22_RegistryReadPerOperation ==
    [][ /\ C22_Gateway(gwLast', packets', events')
        /\ \A r \in DOMAIN reqs :
              /\ C22_RequestStep(r)
              /\ C22_ResolveStep(r)
              /\ C22_ResolveReturnStep(r)
        /\ \A i, j \in 1..Len(routes') : routes'[i].key = routes'[j].key => i = j ]_vars

\* Two writes left the route map with one entry more than the default: the
\* second replaced the entry the first had made for '/users/42/'. A request
\* for that route started afterwards and ran the pre hook of the object now
\* stored, which is not the object the default map selects for the route.
C22_Witness ==
    \E r \in DOMAIN reqs :
        /\ Started(reqs[r])
        /\ writes = 2
        /\ Len(reqs[r].seen) = Len(DEFAULT_ROUTE_PATCHES) + 1
        /\ reqs[r].seen = routes
        /\ reqs[r].route = Users42
        /\ IsKey(routes, Users42)
        /\ reqs[r].patch = routesGet(routes, Users42)
        /\ reqs[r].patch # requestPatch(DEFAULT_ROUTE_PATCHES, Users42)
        /\ CallsAt(reqs[r], "pre") # {}

\* ---------------------------------------------------------------------
\* Modules: what unload leaves registered
\* ---------------------------------------------------------------------
\* The handlers module m bound.
HandlersOf(m) == {BoundHandler(m, k) : k \in 1..instances[m].bound}

\* Module m has a listener on the bot emitter, a listener on the server
\* emitter, a command in loadedCommands.
HasBotListener(m) ==
    \E e \in BotEventNames :
        \E i \in 1..Len(botEmitter[e]) : botEmitter[e][i] \in HandlersOf(m)
HasServerListener(m) ==
    \E e \in ServerEventNames :
        \E i \in 1..Len(serverEmitter[e]) : serverEmitter[e][i] \in HandlersOf(m)
HasCommand(m) ==
    \E name \in DOMAIN loadedCommands : loadedCommands[name] \in HandlersOf(m)

\* C23: when Module.unload has completed, no bot listener, no server
\* listener and no command the module registered is registered any more,
\* and unregisterFunctions is empty.
C23_UnloadRemovesRegistrations ==
    \A m \in ModuleIds :
        instances[m].unloaded = "ok" =>
            /\ ~HasBotListener(m)
            /\ ~HasServerListener(m)
            /\ ~HasCommand(m)
            /\ instances[m].unregisterFunctions = <<>>

\* A module that had registered a server listener and a command was
\* unloaded while the other module still has a listener registered.
C23_Witness ==
    \E m \in ModuleIds, o \in ModuleIds :
        /\ m # o
        /\ instances[m].unloaded = "ok"
        /\ Len(instances[m].called) = 2
        /\ \E i \in 1..2 : instances[m].called[i].kind = "server"
        /\ \E i \in 1..2 : instances[m].called[i].kind = "command"
        /\ HasServerListener(o)

\* ---------------------------------------------------------------------
\* Events of the websocket manager other than Dispatch
\* ---------------------------------------------------------------------
\* C24: for an event other than Dispatch the wrapped emit calls no hook and
\* calls the original emit once with the arguments it was given, also when
\* the registry holds an inbound packet hook for the opcode of the frame the
\* event carries; a hook is called by the wrapped emit for Dispatch events
\* only.
C24_OtherEventsPassThrough ==
    gwLast.kind = "emit" =>
        /\ gwLast.event # WsDispatch =>
              /\ gwLast.calls = <<>>
              /\ ~gwLast.threw
              /\ gwLast.real = <<[event |-> gwLast.event, payload |-> gwLast.input]>>
        /\ gwLast.calls # <<>> => gwLast.event = WsDispatch

\* An event other than Dispatch was emitted with a frame for whose opcode
\* the registry holds an inbound packet hook, and went through as it was.
C24_Witness ==
    /\ gwLast.kind = "emit"
    /\ gwLast.event # WsDispatch
    /\ Has(gwLast.input["data"], "op")
    /\ HasHook(packets, gwLast.input["data"]["op"], "inbound")
    /\ gwLast.calls = <<>>
    /\ gwLast.real = <<[event |-> gwLast.event, payload |-> gwLast.input]>>

\* ---------------------------------------------------------------------
\* Route map writes while the original request is pending
\* ---------------------------------------------------------------------
\* The original request of q has returned to the wrapper.
UnderlyingReturned(q) == q.pc = "done" \/ q.failedAt = "post"

\* C25: the post hook applied to a request is that of the patch object the
\* request selected when it started, in the route map as it was then,
\* whatever was written to the map while the original request was pending:
\* that patch's post hook is called if it has one, and no other.
C25_PostOfPatchSelectedAtStart ==
    \A r \in DOMAIN reqs :
        UnderlyingReturned(reqs[r]) =>
            LET q == reqs[r]
                P == requestPatch(q.seen, q.route)
            IN  /\ q.patch = P
                /\ PatchHas(P, "post") <=> CallsAt(q, "post") # {}
                /\ \A i \in CallsAt(q, "post") :
                      /\ q.calls[i].patch = P
                      /\ q.calls[i].hook = RoutePatches[P]["post"]
                /\ (q.pc = "done" /\ ~PatchHas(P, "post")) => q.result = q.response

\* A request returned through the post hook of the patch it had selected
\* although the entry was deleted while the original request was pending:
\* the route map as resolveRequest found it, which the original request
\* calls before it returns, held no patch for the route any more.
C25_Witness ==
    \E r \in DOMAIN reqs :
        /\ reqs[r].pc = "done"
        /\ CallsAt(reqs[r], "post") # {}
        /\ TheCall(reqs[r], "post").patch = reqs[r].patch
        /\ reqs[r].rseen # reqs[r].seen
        /\ requestPatch(reqs[r].rseen, reqs[r].route) = NoPatch

\* ---------------------------------------------------------------------
\* Two requests in flight
\* ---------------------------------------------------------------------
\* C26: with two requests in flight and their suspension points interleaved
\* in every way, the redirect, pre and post applied to a request are those
\* of the patch the route map holds for that request's own route, and its
\* caller receives what post makes of the response of its own call of the
\* original request.
C26_RequestsDoNotMix ==
    \A r \in DOMAIN reqs :
        Started(reqs[r]) =>
            LET q     == reqs[r]
                P     == requestPatch(q.seen, q.route)
                first == q.calls[1]
            IN  /\ q.patch = P
                /\ C2_Order(q)
                /\ \A i \in CallsAt(q, "pre") \cup CallsAt(q, "post") : q.calls[i].patch = P
                /\ first.point = IF PatchHas(P, "pre") THEN "pre" ELSE "underlying"
                /\ first.request =
                      [ fullRoute |-> IF PatchHas(P, "redirect") THEN RoutePatches[P]["redirect"]
                                      ELSE q.route,
                        method |-> "GET" ]

\* Both requests are at their await of the original request, each having
\* run the pre hook of its own patch, the two patches being different.
C26_Witness ==
    \E r, o \in DOMAIN reqs :
        /\ reqs[r].pc = "sent"
        /\ reqs[o].pc = "sent"
        /\ reqs[r].patch = "full"
        /\ reqs[o].patch = "reroute"
        /\ TheCall(reqs[r], "pre").patch = "full"
        /\ TheCall(reqs[o], "pre").patch = "reroute"
        /\ reqs[r].options # reqs[o].options

\* C27: when the underlying request call rejects (an error of the library or
\* an abort), the post hook of the patch selected for the request is never
\* invoked, the caller gets that rejection and no result; when the
\* underlying resolveRequest call rejects, the resolve hook of the patch
\* selected for the resolution is never invoked, and the request fails with
\* that rejection.
C27_UnderlyingFailureSkipsHook ==
    \A r \in DOMAIN reqs :
        LET q == reqs[r]
        IN  /\ q.failedAt = "underlying" =>
                  /\ CallsAt(q, "post") = {}
                  /\ q.pc = "failed"
                  /\ q.error \in UnderlyingErrors
                  /\ q.result = IdleRequest.result
            /\ q.failedAt = "originalResolve" =>
                  /\ CallsAt(q, "resolve") = {}
                  /\ CallsAt(q, "post") = {}
                  /\ q.pc = "failed"
                  /\ q.error \in UnderlyingErrors
                  /\ q.resolved = IdleRequest.resolved
C27_Witness ==
    \E r \in DOMAIN reqs :
        /\ reqs[r].failedAt = "underlying"
        /\ PatchHas(reqs[r].patch, "post")
        /\ CallsAt(reqs[r], "originalResolve") # {}
        /\ reqs[r].error[1] = "AbortError"

\* The name and the value the claim gives a 'Name: value' string: the text
\* before the first ':', and all the text after it, leading blanks trimmed.
NameOfHeader(s) == SubSeq(s, 1, colonFrom(s, 0))
ValueAfterFirstColon(s) == trimStart(SubSeq(s, colonFrom(s, 0) + 2, Len(s)))

\* C28: when the original resolveRequest returned its headers as a list of
\* 'Name: value' strings, the mapping built from it has exactly one entry
\* per header name, and the value of each is the complete text following
\* the first ':' of its string, leading whitespace trimmed.
C28_ValueIsAllTextAfterFirstColon ==
    \A r \in DOMAIN reqs :
        LET q == reqs[r]
        IN  (Resolved(q) /\ OriginalResolved(q).headers.form = "list") =>
                LET items == OriginalResolved(q).headers.items
                IN  /\ q.normalized.form = "map"
                    /\ DOMAIN q.normalized.map = {NameOfHeader(items[i]) : i \in 1..Len(items)}
                    /\ \A i \in 1..Len(items) :
                          q.normalized.map[NameOfHeader(items[i])] = ValueAfterFirstColon(items[i])

\* resolveRequest was called for the request.
ResolveCalled(q) ==
    \/ q.pc \in {"resolving", "hooked", "sent", "done"}
    \/ q.failedAt \in {"resolve", "wrapResolveRequest", "originalResolve", "post"}
    \/ q.failedAt = "underlying" /\ ResolveAnswered(q)

\* The route a patch's redirect names.
RedirectOf(q) == RoutePatches[q.patch]["redirect"]

\* C29 as stated: in a request whose selected patch sets redirect, the
\* resolve interception point selects its patch by the redirected route.
C29_ResolveByRedirectTarget ==
    \A r \in DOMAIN reqs :
        LET q == reqs[r]
        IN  (ResolveCalled(q) /\ PatchHas(q.patch, "redirect")) =>
                q.rpatch = resolvePatch(q.rseen, RedirectOf(q))

\* C29 amended: in a request whose selected patch sets redirect, the resolve
\* interception point selects its patch, from the route map as it is then,
\* by the route of the request the original request was given: the
\* redirected route when the patch has no pre hook or its pre hook keeps the
\* route, the route the pre hook returned otherwise; never by the route
\* originally requested. When the original resolveRequest returns, the
\* resolve hook of that patch, and no other, is applied.
C29_ResolveByRouteAfterRedirectAndPre ==
    \A r \in DOMAIN reqs :
        LET q == reqs[r]
        IN  (ResolveCalled(q) /\ PatchHas(q.patch, "redirect")) =>
                LET redirected == [fullRoute |-> RedirectOf(q), method |-> "GET"]
                    carried == IF PatchHas(q.patch, "pre")
                               THEN RestPre(RoutePatches[q.patch]["pre"], redirected)["fullRoute"]
                               ELSE RedirectOf(q)
                IN  /\ q.options["fullRoute"] = carried
                    /\ q.rpatch = resolvePatch(q.rseen, carried)
                    /\ \A i \in CallsAt(q, "resolve") :
                          /\ q.calls[i].patch = q.rpatch
                          /\ q.calls[i].hook = RoutePatches[q.rpatch]["resolve"]
                    /\ ResolveAnswered(q) => (CallsAt(q, "resolve") # {} <=> PatchHas(q.rpatch, "resolve"))

\* A request for '/gateway/bot', whose patch redirects to '/gateway' and has
\* no resolve hook, had the resolve hook applied of a patch stored under
\* '/gateway', which the requested route does not select.
C29_Witness ==
    \E r \in DOMAIN reqs :
        LET q == reqs[r]
        IN  /\ q.route = RouteGatewayBot
            /\ q.patch = "gatewayBot"
            /\ CallsAt(q, "resolve") # {}
            /\ TheCall(q, "resolve").patch = routesGet(q.rseen, RouteGateway)
            /\ resolvePatch(q.rseen, q.route) = "gatewayBot"

\* C30: after any sequence of assignments to _ws and of updateShardCount
\* calls, no manager's emit and no shard's send carries more than one
\* wrapper, and on the client's current manager, when no patch function
\* threw, emit carries exactly one and so does the send of every shard once
\* no call of updateShardCount is in flight: the hooks are applied exactly
\* once per frame.
C30_WrappedAtMostOnce ==
    /\ \A m \in ManagerIds :
          /\ mgrs[m].emitWraps <= 1
          /\ \A i \in 1..Len(mgrs[m].shards) : mgrs[m].shards[i].sendWraps <= 1
    /\ (ws # Null /\ late = "") =>
          /\ mgrs[ws].emitWraps = 1
          /\ mgrs[ws].inflight = <<>> =>
                \A i \in 1..Len(mgrs[ws].shards) : mgrs[ws].shards[i].sendWraps = 1

\* C31: when the route of a request selects the '/users/{:id}/' patch and
\* the original resolveRequest returns headers in list form, or a mapping
\* without Authorization, the resolve hook is called and throws: the
\* request fails at the resolve step with the hook's error, and no wire
\* form, changed or unchanged, is returned.
C31_MissingAuthorizationFailsResolve ==
    \A r \in DOMAIN reqs :
        LET q == reqs[r]
        IN  ( /\ ResolveAnswered(q)
              /\ q.rpatch = "users"
              /\ \/ OriginalResolved(q).headers.form = "list"
                 \/ ~Has(OriginalResolved(q).headers.map, HeaderAuthorization) ) =>
                /\ q.pc = "failed"
                /\ q.failedAt = "resolve"
                /\ q.error = HookError("stripBearer")
                /\ CallsAt(q, "resolve") # {}
                /\ q.calls[Len(q.calls)].point = "resolve"
                /\ q.resolved = IdleRequest.resolved
                /\ q.result = IdleRequest.result

\* A request for '/users/42/' failed at the resolve step on a mapping that
\* has a User-Agent entry and no Authorization entry.
C31_Witness ==
    \E r \in DOMAIN reqs :
        LET q == reqs[r]
        IN  /\ q.route = Users42
            /\ q.rpatch = "users"
            /\ q.failedAt = "resolve"
            /\ OriginalResolved(q).headers.form = "map"
            /\ ~Has(OriginalResolved(q).headers.map, HeaderAuthorization)

\* ---------------------------------------------------------------------
\* Server: forwarding listeners and the interaction handler
\* ---------------------------------------------------------------------
\* How many times a listener is on an emitter for an event.
TimesListening(listeners, event, h) ==
    Cardinality({i \in 1..Len(listeners[event]) : listeners[event][i] = h})

\* C32: after any sequence of Server.on and Server.off calls, the
\* forwarding listener of a server event is on the bot emitter once when the
\* server emitter has a listener for the event, and not at all otherwise.
C32_ForwardingAttachedIffListened ==
    \A event \in ServerEventNames :
        TimesListening(botEmitter, MappedBotEvent(event), ForwardingListener(event))
            = IF listenerCount(serverEmitter, event) > 0 THEN 1 ELSE 0

\* C33: after any sequence of Server.registerCommand and
\* Server.unregisterCommand calls, onInteractionHandler is on the server
\* emitter for 'userInteraction' once when loadedCommands is not empty, and
\* not at all when it is empty.
C33_InteractionHandlerOnceIffCommands ==
    TimesListening(serverEmitter, "userInteraction", OnInteractionHandler)
        = IF DOMAIN loadedCommands # {} THEN 1 ELSE 0

\* ---------------------------------------------------------------------
\* Loading, unloading and removal of the guild
\* ---------------------------------------------------------------------
\* What a cleanup function would undo is still in place.
Registered(st, c) ==
    CASE c.kind = "bot" -> \E i \in 1..Len(st.bot[c.key]) : st.bot[c.key][i] = c.handler
      [] c.kind = "server" -> \E i \in 1..Len(st.server[c.key]) : st.server[c.key][i] = c.handler
      [] c.kind = "command" -> Has(st.commands, c.key)
      [] c.kind = "custom" -> TRUE

\* The instance loadedModules holds for a module id, "" when none.
LoadedInstance(id) ==
    IF modulesHas(loadedModules, id)
    THEN loadedModules[CHOOSE i \in 1..Len(loadedModules) : loadedModules[i].id = id].load
    ELSE ""

\* The first call was made before the second.
LoadedBefore(a, b) ==
    \E i, j \in 1..Len(LoadOrder) : i < j /\ LoadOrder[i] = a /\ LoadOrder[j] = b

FailedWith(l, cause) ==
    /\ loads[l].pc = "failed"
    /\ loads[l].error = ModuleError(loads[l].module, "Failed to enable module.", Error(cause))

\* C34: a loadModule that failed has rejected with a ModuleError, whose
\* cause is the rejection of initialize or of refreshCommands or 'Module
\* already loaded.', never the configuration (initialize runs whether or not
\* a configuration was found). As long as the instance of a load that
\* failed in initialize or refreshCommands has not been unloaded, it is the
\* instance loadedModules holds for its id and everything it registered is
\* still registered; a loadModule for the same id made meanwhile has failed
\* with 'Module already loaded.' and registered nothing.
C34_FailedLoadIsNotRolledBack ==
    \A l \in LoadIds :
        LET q == loads[l]
        IN  /\ q.pc = "failed" =>
                  \E cause \in {"initialize", "refreshCommands", "Module already loaded."} :
                      FailedWith(l, cause)
            /\ FailedWith(l, "initialize") => Len(q.registered) < Len(InitializeSteps(q.module))
            /\ q.pc \in {"refresh", "done"} \/ FailedWith(l, "refreshCommands") =>
                  Len(q.registered) = Len(InitializeSteps(q.module))
            /\ ((FailedWith(l, "initialize") \/ FailedWith(l, "refreshCommands"))
                    /\ q.unloaded = "") =>
                  /\ LoadedInstance(q.module) = l
                  /\ q.unregisterFunctions = q.registered
                  /\ \A i \in 1..Len(q.registered) : Registered(TheServer, q.registered[i])
                  /\ \A o \in LoadIds :
                        (LoadedBefore(l, o) /\ loads[o].module = q.module) =>
                            /\ FailedWith(o, "Module already loaded.")
                            /\ loads[o].registered = <<>>
            /\ FailedWith(l, "Module already loaded.") => q.unregisterFunctions = <<>>

\* initialize of 'verifier' ran without a configuration and rejected after
\* two registrations; a second loadModule of 'verifier' failed as already
\* loaded.
C34_Witness ==
    \E l, o \in LoadIds :
        /\ loads[l].module = "verifier"
        /\ loads[l].config = Null
        /\ FailedWith(l, "initialize")
        /\ Len(loads[l].registered) = 2
        /\ LoadedInstance("verifier") = l
        /\ FailedWith(o, "Module already loaded.")
        /\ loads[o].module = "verifier"

\* C35: once destroyServerInstance has completed, the server has no loaded
\* module, no registered command and no listener, on its own emitter or,
\* through its forwarding listeners, on the bot's; this stays so whatever
\* loadModule calls were suspended when the guild was removed.
C35_NothingLeftAfterDestroy ==
    teardown = "done" =>
        /\ loadedModules = <<>>
        /\ DOMAIN loadedCommands = {}
        /\ serverEmitter = NoListeners
        /\ \A event \in ServerEventNames :
              TimesListening(botEmitter, MappedBotEvent(event), ForwardingListener(event)) = 0

\* A sequence back to front.
Reversed(s) == [i \in 1..Len(s) |-> s[Len(s) + 1 - i]]

\* The step is Server.unloadModule of the instance of call l.
UnloadedBy(l) == loads[l].unloaded = "" /\ loads'[l].unloaded # ""

\* C36: Module.unload calls the cleanup functions last registered first,
\* each once, and stops at the first that throws: the functions registered
\* before it stay in the list, un-called, and what they would undo stays
\* registered; Server.unloadModule has by then removed the module from
\* loadedModules, rejects with a ModuleError and never calls refreshCommands.
C36_UnloadIsReverseAndStopsAtThrow ==
    [][\A l \in LoadIds :
        /\ UnloadedBy(l) =>
             LET before == loads[l].unregisterFunctions
                 after  == loads'[l]
                 n      == Len(after.called)
             IN  /\ before = after.unregisterFunctions \o Reversed(after.called)
                 /\ \A i \in 1..(n - 1) : ~after.called[i].throws
                 /\ ~modulesHas(loadedModules', loads[l].module)
                 /\ IF n > 0 /\ after.called[n].throws
                    THEN /\ after.unloaded = "threw"
                         /\ after.unloadError =
                                ModuleError(loads[l].module, "Failed to disable module.",
                                            Error("cleanup"))
                         /\ \A i \in 1..Len(after.unregisterFunctions) :
                                Registered(TheServer', after.unregisterFunctions[i])
                    ELSE /\ after.unloaded = "refresh"
                         /\ after.unregisterFunctions = <<>>
                         /\ after.unloadError = NoError
        /\ loads[l].unloaded = "threw" => loads'[l].unloaded = "threw"
      ]_vars

\* The second module was unloaded: its command was unregistered, its own
\* cleanup function threw, and its bot listener, registered first, is left in
\* the list and on the bot emitter, while loadedModules no longer has it.
C36_Witness ==
    \E l \in LoadIds :
        /\ loads[l].module = "pins"
        /\ loads[l].unloaded = "threw"
        /\ loads[l].called = <<CommandCleanup("ping"), CustomCleanup(TRUE)>>
        /\ loads[l].unregisterFunctions = <<BotCleanup("userInteraction", BoundHandler(l, 1))>>
        /\ Registered(TheServer, BotCleanup("userInteraction", BoundHandler(l, 1)))
        /\ ~Has(loadedCommands, "ping")
        /\ LoadedInstance("pins") # l

\* ---------------------------------------------------------------------
\* joinTextList
\* ---------------------------------------------------------------------
\* The role mentions of a text, left to right: each runs from a '<' to the
\* next '>'.
RECURSIVE MentionsIn(_)
MentionsIn(text) ==
    IF \A i \in 1..Len(text) : text[i] # "<" THEN <<>>
    ELSE LET i == CHOOSE k \in 1..Len(text) :
                      text[k] = "<" /\ \A j \in 1..(k - 1) : text[j] # "<"
             after == SubSeq(text, i, Len(text))
         IN  IF \A k \in 1..Len(after) : after[k] # ">" THEN <<after>>
             ELSE LET j == CHOOSE k \in 1..Len(after) :
                               after[k] = ">" /\ \A n \in 1..(k - 1) : after[n] # ">"
                  IN  <<SubSeq(after, 1, j)>> \o MentionsIn(SubSeq(after, j + 1, Len(after)))

\* C38: the text joinTextList returns mentions every element of the array,
\* each once and in the order of the array, whatever its length.
C38_EveryItemOnceInOrder ==
    joinText # Null => MentionsIn(joinText) = joinItems

\* ---------------------------------------------------------------------
\* Server.findMessage
\* ---------------------------------------------------------------------
\* The step is an iteration of the while loop that fetched a page with
\* messages, none of which the predicate accepted.
PageWithoutMatch ==
    /\ findPc = "fetching"
    /\ findPc' = "paging"
    /\ fetch(channel, lastMessageId, PageLimit) # <<>>

\* The first cursor is at an older message than the second.
StrictlyOlder(a, b) == a # NoMessage /\ (b = NoMessage \/ a < b)

\* C37: every page with messages and no match moves the `before` cursor to
\* a strictly older message, also when messages share a timestamp, so that
\* on a finite channel an empty page is fetched in the end and findMessage
\* returns.
C37_PageMovesCursorToOlderMessage ==
    [][PageWithoutMatch => StrictlyOlder(lastMessageId', lastMessageId)]_vars
====
